---- MODULE Spec2Model ----
(***************************************************************************)
(* Model of the certificate-manager controller: the Reconcile state        *)
(* machine of CertificateReconciler, the secret and deployment helpers it  *)
(* calls, the event predicates that set the process-wide Event flag, and   *)
(* the certificate utilities.                                              *)
(*                                                                         *)
(* Time is counted in whole seconds (now); durations and certificate       *)
(* timestamps are in milliseconds.                                         *)
(***************************************************************************)
EXTENDS Integers, Sequences, FiniteSets, TLC

\* ---------------------------------------------------------------- bounds
MaxTime == 2
MaxIssued == 2
MaxUserOps == 2
MaxPurgeOps == 3
MaxTwoOps == 3
MaxValidityOps == 3
MaxRaceOps == 3
MaxRenameOps == 3
MaxUnblockOps == 3
MaxNotifyOps == 2
MaxMalformedOps == 3
MaxFrameOps == 3
MaxLen == 3
MaxHalfSeconds == 6
MaxOps == 12

\* ------------------------------------------------------------- constants
TypeCertificate == "CERTIFICATE"
TypePrivateKey == "RSA PRIVATE KEY"
Finalizer == "certs.k8c.io/certificate"
StatusReconciling == "Reconciling"
StatusRotating == "Rotating"
StatusDeleting == "Deleting"
StatusExpired == "Expired"
StatusDeployed == "Deployed"
StatusMessageReconciling == "Certificate is being processed"
StatusMessageRotating == "Certificate is expired, Regenerating.."
StatusMessageDeleting == "Certificate is being deleted"
StatusMessageExpired == "Certificate is expired"
StatusMessageDeployed == "Certificate deployed successfully"
CertificateENVName == "CERTIFICATE_RESOURCE_VERSION"
EventCreate == "CREATE"
EventUpdate == "UPDATE"
SecretTypeTLS == "kubernetes.io/tls"

\* time.Second, time.Minute, time.Hour in milliseconds
Second == 1000
Minute == 60 * Second
Hour == 60 * Minute

\* ------------------------------------------------------- the object universe
Requests == {"a", "b"}
Namespaces == {"ns1", "ns2"}
SecretNames == {"s1", "s2"}
SecretKeys == Namespaces \X SecretNames
Deployments == {"d1", "d2"}
DeployOrder == <<"d1", "d2">>

NamespaceOf(r) == IF r = "a" THEN "ns1" ELSE "ns2"

\* validity texts, which the CRD holds to ^([0-9]+)(s|m|h|d)$
V1s == <<"1", "s">>
V2s == <<"2", "s">>
\* twenty digits and "d": a text the pattern admits and strconv.Atoi does not
VOver == <<"9", "9", "9", "9", "9", "9", "9", "9", "9", "9",
           "9", "9", "9", "9", "9", "9", "9", "9", "9", "9", "d">>

Fields == {"dnsName", "validity", "secretRef", "purgeOnDelete",
           "reloadOnChange", "rotateOnExpiry"}

\* The specs users give in the three scopes that are explored.
\* Rotation and edits: one request, never purged; its name, validity, reload
\* and rotation flags vary.
LifeSpecs ==
    [dnsName : {"x.io", "y.io"}, validity : {V1s, V2s},
     secretRef : {"s1"}, purgeOnDelete : {FALSE},
     reloadOnChange : BOOLEAN, rotateOnExpiry : BOOLEAN]

\* Deletion: one request whose purge and reload flags vary.
PurgeSpecs ==
    [dnsName : {"x.io"}, validity : {V2s}, secretRef : {"s1"},
     purgeOnDelete : BOOLEAN, reloadOnChange : BOOLEAN,
     rotateOnExpiry : {FALSE}]

\* Validity texts the parser refuses: one request, never purged, no notifier.
ValiditySpecs ==
    [dnsName : {"x.io"}, validity : {V2s, VOver}, secretRef : {"s1"},
     purgeOnDelete : {FALSE}, reloadOnChange : {FALSE},
     rotateOnExpiry : BOOLEAN]

\* The notifier and another writer: one request with reloadOnChange.
RaceSpecs ==
    [dnsName : {"x.io", "y.io"}, validity : {V2s}, secretRef : {"s1"},
     purgeOnDelete : {FALSE}, reloadOnChange : {TRUE},
     rotateOnExpiry : BOOLEAN]

\* A renamed secret: one request whose secretRef and purge flag vary.
RenameSpecs ==
    [dnsName : {"x.io"}, validity : {V2s}, secretRef : SecretNames,
     purgeOnDelete : BOOLEAN, reloadOnChange : {FALSE},
     rotateOnExpiry : {FALSE}]

\* A purge flag that is edited: one request whose purgeOnDelete varies.
UnblockSpecs ==
    [dnsName : {"x.io"}, validity : {V2s}, secretRef : {"s1"},
     purgeOnDelete : BOOLEAN, reloadOnChange : {FALSE},
     rotateOnExpiry : {FALSE}]

\* The notifier on its own: one request with reloadOnChange, never rotated.
NotifySpecs ==
    [dnsName : {"x.io", "y.io"}, validity : {V2s}, secretRef : {"s1"},
     purgeOnDelete : {FALSE}, reloadOnChange : {TRUE},
     rotateOnExpiry : {FALSE}]

\* A validity edited to a text the parser refuses: one request with
\* purgeOnDelete and reloadOnChange.
MalformedSpecs ==
    [dnsName : {"x.io"}, validity : {V1s, VOver}, secretRef : {"s1"},
     purgeOnDelete : {TRUE}, reloadOnChange : {TRUE},
     rotateOnExpiry : BOOLEAN]

\* Two requests: "a" is declared once and never edited, the bystander "b"
\* is edited.
TwoSpecs(r) ==
    [dnsName : IF r = "a" THEN {"x.io"} ELSE {"x.io", "y.io"},
     validity : {V2s}, secretRef : {"s1"}, purgeOnDelete : {FALSE},
     reloadOnChange : {FALSE}, rotateOnExpiry : BOOLEAN]

\* A request is first declared for x.io, with a validity of one second if the
\* scope has it.
InitialSpecs(U) ==
    {sp \in U : /\ sp.dnsName = "x.io"
                /\ \/ sp.validity = V1s
                   \/ V1s \notin {u.validity : u \in U}}

\* An edit changes one field of the spec.
Edits(U, old) ==
    {sp \in U : Cardinality({f \in Fields : sp[f] # old[f]}) = 1}

\* ------------------------------------------------------------ ParseDuration
IsDigit(ch) == ch \in {"0", "1", "2", "3", "4", "5", "6", "7", "8", "9"}

DigitVal(ch) ==
    CASE ch = "0" -> 0 [] ch = "1" -> 1 [] ch = "2" -> 2 [] ch = "3" -> 3
      [] ch = "4" -> 4 [] ch = "5" -> 5 [] ch = "6" -> 6 [] ch = "7" -> 7
      [] ch = "8" -> 8 [] ch = "9" -> 9

RECURSIVE NatOf(_)
NatOf(s) ==
    IF s = <<>> THEN 0
    ELSE 10 * NatOf(SubSeq(s, 1, Len(s) - 1)) + DigitVal(s[Len(s)])

AllDigits(s) == \A i \in 1..Len(s) : IsDigit(s[i])

HasSign(s) == s # <<>> /\ s[1] \in {"+", "-"}

\* the digits of s from its first digit that is not a zero
RECURSIVE Significant(_)
Significant(s) ==
    IF s = <<>> \/ s[1] # "0" THEN s ELSE Significant(Tail(s))

\* strconv.Atoi: an optional sign and one or more decimal digits; a number of
\* twenty or more significant digits is out of the range of int
Atoi(s) ==
    LET body == IF HasSign(s) THEN Tail(s) ELSE s
    IN  IF body = <<>> \/ ~AllDigits(body) \/ Len(Significant(body)) > 19
        THEN [err |-> TRUE, val |-> 0]
        ELSE [err |-> FALSE,
              val |-> IF HasSign(s) /\ s[1] = "-" THEN -NatOf(body) ELSE NatOf(body)]

\* length of the longest prefix of s whose characters satisfy digit-ness d
RECURSIVE Run(_, _)
Run(s, d) ==
    IF s = <<>> \/ IsDigit(s[1]) # d THEN 0 ELSE 1 + Run(Tail(s), d)

UnitName(u) == u \in {<<"m", "s">>, <<"s">>, <<"m">>, <<"h">>}

UnitMs(u) ==
    CASE u = <<"m", "s">> -> 1
      [] u = <<"s">> -> Second
      [] u = <<"m">> -> Minute
      [] u = <<"h">> -> Hour

\* the ([0-9]+[a-z]+)+ part of time.ParseDuration, over texts without "."
RECURSIVE Segments(_)
Segments(s) ==
    LET k == Run(s, TRUE)
        rest == SubSeq(s, k + 1, Len(s))
        j == Run(rest, FALSE)
        unit == SubSeq(rest, 1, j)
        more == SubSeq(rest, j + 1, Len(rest))
    IN  IF k = 0 \/ j = 0 \/ ~UnitName(unit)
        THEN [err |-> TRUE, val |-> 0]
        ELSE LET v == NatOf(SubSeq(s, 1, k)) * UnitMs(unit)
             IN  IF more = <<>>
                 THEN [err |-> FALSE, val |-> v]
                 ELSE LET r == Segments(more)
                      IN  IF r.err THEN r ELSE [err |-> FALSE, val |-> v + r.val]

\* time.ParseDuration for texts over digits, sign and the letters s, m, h, d, x
TimeParseDuration(s) ==
    LET body == IF HasSign(s) THEN Tail(s) ELSE s
    IN  IF body = <<"0">> THEN [err |-> FALSE, val |-> 0]
        ELSE IF body = <<>> THEN [err |-> TRUE, val |-> 0]
        ELSE LET r == Segments(body)
             IN  IF r.err THEN r
                 ELSE [err |-> FALSE,
                       val |-> IF s[1] = "-" THEN -r.val ELSE r.val]

ParseDuration(validity) ==
    IF validity # <<>> /\ validity[Len(validity)] = "d"
    THEN LET days == Atoi(SubSeq(validity, 1, Len(validity) - 1))
         IN  IF days.err THEN [err |-> TRUE, val |-> 0]
             ELSE [err |-> FALSE, val |-> days.val * 24 * Hour]
    ELSE TimeParseDuration(validity)

\* ------------------------------------------------------------- certificates
NoCert == [kind |-> "none", cn |-> "", dns |-> <<>>, issuer |-> "",
           notBefore |-> 0, notAfter |-> 0, serial |-> 0]
NoKey == [kind |-> "none", serial |-> 0]

\* ASN.1 UTCTime keeps whole seconds
TruncSec(t) == (t \div Second) * Second

\* A faulty template whose NotAfter leaves the validity out; C27 rejects it.
GetTemplateNoValidity(dnsName, validity, t1, t2) ==
    [cn |-> dnsName, dns |-> <<dnsName>>,
     notBefore |-> t1, notAfter |-> t2]

\* the x509.Certificate template for dnsName and validity; the clock is read
\* twice, at t1 for NotBefore and at t2 for NotAfter (ms)
GetTemplate(dnsName, validity, t1, t2) ==
    [cn |-> dnsName, dns |-> <<dnsName>>,
     notBefore |-> t1, notAfter |-> t2 + validity]

\* The PEM pair made with clock reads t1 and t2; id stands for the random RSA
\* key, so that two issuances never yield the same bytes.
CreateSelfSignedCertificate(dnsName, validity, t1, t2, id) ==
    LET template == GetTemplate(dnsName, validity, t1, t2)
    IN  [cert |-> [kind |-> TypeCertificate, cn |-> template.cn,
                   dns |-> template.dns, issuer |-> template.cn,
                   notBefore |-> TruncSec(template.notBefore),
                   notAfter |-> TruncSec(template.notAfter), serial |-> id],
         key |-> [kind |-> TypePrivateKey, serial |-> id]]

\* IsCertificateExpired at time t (ms): [expired, err]
\* kind "BADDER" is a PEM block whose bytes are no certificate; any other
\* kind that is not a certificate is text pem.Decode finds no block in.
IsCertificateExpired(cert, t) ==
    IF cert.kind = TypeCertificate
    THEN [expired |-> t > cert.notAfter, err |-> FALSE]
    ELSE IF cert.kind = "BADDER"
    THEN [expired |-> FALSE, err |-> TRUE]
    ELSE [expired |-> FALSE, err |-> FALSE]

\* ------------------------------------------------------------------ objects
NoCR == [exists |-> FALSE, dnsName |-> "", validity |-> <<>>, secretRef |-> "",
         purgeOnDelete |-> FALSE, reloadOnChange |-> FALSE,
         rotateOnExpiry |-> FALSE, deleting |-> FALSE, finalizer |-> FALSE,
         status |-> "", message |-> "", deployedNamespace |-> "",
         expiryDate |-> 0]

NewCR(spec) ==
    [NoCR EXCEPT !.exists = TRUE, !.dnsName = spec.dnsName,
                 !.validity = spec.validity, !.secretRef = spec.secretRef,
                 !.purgeOnDelete = spec.purgeOnDelete,
                 !.reloadOnChange = spec.reloadOnChange,
                 !.rotateOnExpiry = spec.rotateOnExpiry]

SpecOf(o) ==
    [dnsName |-> o.dnsName, validity |-> o.validity, secretRef |-> o.secretRef,
     purgeOnDelete |-> o.purgeOnDelete, reloadOnChange |-> o.reloadOnChange,
     rotateOnExpiry |-> o.rotateOnExpiry]

NoSecret == [exists |-> FALSE, type |-> "", crt |-> NoCert, key |-> NoKey,
             rv |-> 0]

\* objects.Secret(name, namespace): an empty Secret object
Secret(name, namespace) == NoSecret

NoResult == [requeue |-> FALSE, after |-> 0]

NoLast == [req |-> "", trigger |-> "none", fail |-> 0, err |-> "nil",
           result |-> NoResult, trace |-> <<>>, gen |-> 0, made |-> NoCert,
           raced |-> FALSE]

\* ---------------------------------------------------------------------- state
VARIABLES
    cr,           \* the Certificate objects in the API server, per request
    secrets,      \* the Secret objects, per (namespace, name)
    deployments,  \* the Deployment objects
    Event,        \* the process-wide "last event type" flag
    now,          \* the clock, in seconds
    issued,       \* certificates generated so far
    rvc,          \* the API server's resourceVersion counter
    pending,      \* per request: what the work queue holds it for
    watchQ,       \* a Secret create event is waiting to be delivered
    userOps,      \* operations users have made so far
    last,         \* the last Reconcile invocation: inputs, outputs, calls
    arg,          \* the argument of a function that is called on its own
    out           \* what that call returned

program == <<cr, secrets, deployments, Event, now, issued, rvc, pending,
             watchQ, userOps, last>>

vars == <<cr, secrets, deployments, Event, now, issued, rvc, pending, watchQ,
          userOps, last, arg, out>>

NoOut == [done |-> FALSE, res |-> <<>>]

NowMs == now * Second

InitDeployments ==
    [d \in Deployments |->
        IF d = "d1"
        THEN [ns |-> "ns1", volumes |-> <<"s1">>,
              containers |-> << <<[name |-> "LOG", value |-> "1"]>>, <<>> >>,
              rv |-> 1]
        ELSE [ns |-> "ns1", volumes |-> <<"other">>, containers |-> << <<>> >>,
              rv |-> 1]]

InitProgram ==
    /\ cr = [r \in Requests |-> NoCR]
    /\ secrets = [k \in SecretKeys |-> NoSecret]
    /\ deployments = InitDeployments
    /\ Event = ""
    /\ now = 0
    /\ issued = 0
    /\ rvc = 1
    /\ pending = [r \in Requests |-> "none"]
    /\ watchQ = FALSE
    /\ userOps = 0
    /\ last = NoLast

Init ==
    /\ InitProgram
    /\ arg = <<>>
    /\ out = NoOut

\* ------------------------------------------------- one Reconcile invocation
\* An invocation is evaluated over a context c: the objects of the API server
\* it touches (obj, secrets, deps), its local objects (inst, sobj), and the
\* calls it has made (n, trace).  The call numbered c.fail fails; 0 is no
\* failure.

Attempt(c, op) == [c EXCEPT !.n = @ + 1, !.trace = Append(@, op)]

Failing(c) == c.n + 1 = c.fail

\* r.Get(ctx, req.NamespacedName, instance)
GetCertificate(c) ==
    LET c1 == Attempt(c, <<"Get", "Certificate">>)
    IN  IF Failing(c) THEN [c1 EXCEPT !.err = "StoreError"]
        ELSE IF ~c.obj.exists THEN [c1 EXCEPT !.err = "NotFound"]
        ELSE [c1 EXCEPT !.err = "nil", !.inst = c.obj]

\* SetStatus: the fields are set on the instance, then patched to the server
SetStatus(c, status, message, deployedNamespace, expiryDate) ==
    LET inst == [c.inst EXCEPT !.status = status, !.message = message,
                               !.deployedNamespace = deployedNamespace,
                               !.expiryDate = c.nowMs + expiryDate]
        c1 == [Attempt(c, <<"Status", status>>) EXCEPT !.inst = inst]
    IN  IF Failing(c) THEN [c1 EXCEPT !.err = "StoreError"]
        ELSE [c1 EXCEPT !.err = "nil",
                        !.obj = [@ EXCEPT !.status = inst.status,
                                          !.message = inst.message,
                                          !.deployedNamespace = inst.deployedNamespace,
                                          !.expiryDate = inst.expiryDate]]

\* r.Update(ctx, instance): spec and metadata are written, status is a
\* subresource and is not.  An object under deletion whose last finalizer is
\* removed is gone.
UpdateCertificate(c) ==
    LET c1 == Attempt(c, <<"Update", "Certificate">>)
        written == [c.obj EXCEPT !.dnsName = c.inst.dnsName,
                                 !.validity = c.inst.validity,
                                 !.secretRef = c.inst.secretRef,
                                 !.purgeOnDelete = c.inst.purgeOnDelete,
                                 !.reloadOnChange = c.inst.reloadOnChange,
                                 !.rotateOnExpiry = c.inst.rotateOnExpiry,
                                 !.finalizer = c.inst.finalizer]
    IN  IF Failing(c) THEN [c1 EXCEPT !.err = "StoreError"]
        ELSE IF written.deleting /\ ~written.finalizer
        THEN [c1 EXCEPT !.err = "nil", !.obj = NoCR]
        ELSE [c1 EXCEPT !.err = "nil", !.obj = written, !.inst = written]

\* controllerutil.AddFinalizer / RemoveFinalizer on the instance
AddFinalizer(c) == [c EXCEPT !.inst.finalizer = TRUE]
RemoveFinalizer(c) == [c EXCEPT !.inst.finalizer = FALSE]

\* r.Get(ctx, key, secret): the object read replaces what secret held
GetSecret(c, key) ==
    LET c1 == Attempt(c, <<"Get", "Secret">>)
    IN  IF Failing(c) THEN [c1 EXCEPT !.err = "StoreError"]
        ELSE IF ~c.secrets[key].exists THEN [c1 EXCEPT !.err = "NotFound"]
        ELSE [c1 EXCEPT !.err = "nil", !.sobj = c.secrets[key]]

\* A faulty r.Create that stores the secret without its data; C3 rejects it.
CreateSecretEmpty(c, key) ==
    LET c1 == Attempt(c, <<"Create", "Secret">>)
        stored == [NoSecret EXCEPT !.exists = TRUE, !.rv = c.rvc + 1]
    IN  IF Failing(c) THEN [c1 EXCEPT !.err = "StoreError"]
        ELSE [c1 EXCEPT !.err = "nil", !.sobj = stored, !.rvc = @ + 1,
                        !.secrets = [@ EXCEPT ![key] = stored],
                        !.created = TRUE]

\* r.Create(ctx, secret)
CreateSecret(c, key) ==
    LET c1 == Attempt(c, <<"Create", "Secret">>)
        stored == [c.sobj EXCEPT !.exists = TRUE, !.rv = c.rvc + 1]
    IN  IF Failing(c) THEN [c1 EXCEPT !.err = "StoreError"]
        ELSE [c1 EXCEPT !.err = "nil", !.sobj = stored, !.rvc = @ + 1,
                        !.secrets = [@ EXCEPT ![key] = stored],
                        !.created = TRUE]

SameContent(x, y) == x.type = y.type /\ x.crt = y.crt /\ x.key = y.key

\* r.Update(ctx, secret): the API server gives the object a new
\* resourceVersion when the update changes it
UpdateSecret(c, key) ==
    LET c1 == Attempt(c, <<"Update", "Secret">>)
        advance == ~SameContent(c.sobj, c.secrets[key])
        stored == [c.sobj EXCEPT !.exists = TRUE,
                                 !.rv = IF advance THEN c.rvc + 1 ELSE @]
    IN  IF Failing(c) THEN [c1 EXCEPT !.err = "StoreError"]
        ELSE [c1 EXCEPT !.err = "nil", !.sobj = stored,
                        !.rvc = IF advance THEN @ + 1 ELSE @,
                        !.secrets = [@ EXCEPT ![key] = stored]]

\* r.Delete(ctx, secret)
DeleteSecret(c, key) ==
    LET c1 == Attempt(c, <<"Delete", "Secret">>)
    IN  IF Failing(c) THEN [c1 EXCEPT !.err = "StoreError"]
        ELSE [c1 EXCEPT !.err = "nil",
                        !.secrets = [@ EXCEPT ![key] = NoSecret]]

\* Sequencing: the statements F that follow a call are run on its outcome c
\* unless the call returned an error, which is then what is returned.
Then(c, F(_)) ==
    CHOOSE after \in {IF x.err # "nil" THEN x ELSE F(x) : x \in {c}} : TRUE

\* the statements F that follow a call and look at its error themselves
On(c, F(_)) == CHOOSE after \in {F(x) : x \in {c}} : TRUE

\* A faulty CreateOrUpdateSecret that updates the secret it has just created;
\* C20 rejects it.
CreateOrUpdateBranchTwice(c, key) ==
    IF c.err \notin {"nil", "NotFound"} THEN c
    ELSE IF c.err = "NotFound"
    THEN Then(CreateSecret(c, key), LAMBDA c2 : UpdateSecret(c2, key))
    ELSE UpdateSecret(c, key)

\* CreateOrUpdateSecret(ctx, secret): the Get reads into the very object that
\* is to be written
CreateOrUpdateBranch(c, key) ==
    IF c.err \notin {"nil", "NotFound"} THEN c
    ELSE IF c.err = "NotFound" THEN CreateSecret(c, key)
    ELSE UpdateSecret(c, key)

CreateOrUpdateSecret(c, key) ==
    On(GetSecret(c, key), LAMBDA c1 : CreateOrUpdateBranch(c1, key))

\* ----------------------------------------------------------------- notifier
\* A faulty list that is not held to the request's namespace; C33 rejects it.
getDeploymentsWithMountedSecretAnywhere(c) ==
    LET c1 == Attempt(c, <<"List", "Deployment">>)
        Mounts(d) == \E i \in 1..Len(c.deps[d].volumes) :
                         c.deps[d].volumes[i] = c.inst.secretRef
    IN  IF Failing(c) THEN [c1 EXCEPT !.err = "StoreError", !.listed = <<>>]
        ELSE [c1 EXCEPT !.err = "nil", !.listed = SelectSeq(DeployOrder, Mounts),
                        !.snap = c.deps]

\* getDeploymentsWithMountedSecret: the deployments of the request's namespace
\* with a volume backed by the secret, in list order
getDeploymentsWithMountedSecret(c) ==
    LET c1 == Attempt(c, <<"List", "Deployment">>)
        Mounts(d) == /\ c.deps[d].ns = c.ns
                     /\ \E i \in 1..Len(c.deps[d].volumes) :
                            c.deps[d].volumes[i] = c.inst.secretRef
    IN  IF Failing(c) THEN [c1 EXCEPT !.err = "StoreError", !.listed = <<>>]
        ELSE [c1 EXCEPT !.err = "nil", !.listed = SelectSeq(DeployOrder, Mounts),
                        !.snap = c.deps]

\* A faulty loop body that appends without looking for the entry; C16
\* rejects it.
UpsertEnvAppend(env, value) ==
    Append(env, [name |-> CertificateENVName, value |-> value])

\* the env of one container after the loop body of addEnvToDeployments
UpsertEnv(env, value) ==
    IF \E j \in 1..Len(env) : env[j].name = CertificateENVName
    THEN LET j == CHOOSE k \in 1..Len(env) :
                    /\ env[k].name = CertificateENVName
                    /\ \A i \in 1..(k - 1) : env[i].name # CertificateENVName
         IN  [env EXCEPT ![j].value = value]
    ELSE Append(env, [name |-> CertificateENVName, value |-> value])

\* r.Patch(ctx, deploymentCopy, client.MergeFrom(&deployment)): a JSON merge
\* patch of what differs between the listed deployment and its copy, that is
\* the whole list of containers or nothing, applied to the stored deployment
\* whatever its resourceVersion
PatchDeployment(c, d, deployment, copy) ==
    LET c1 == Attempt(c, <<"Patch", d>>)
        changed == copy.containers # deployment.containers
    IN  IF Failing(c) THEN [c1 EXCEPT !.err = "StoreError"]
        ELSE [c1 EXCEPT !.err = "nil",
                        !.deps = [@ EXCEPT ![d] =
                            IF changed
                            THEN [@ EXCEPT !.containers = copy.containers,
                                           !.rv = @ + 1]
                            ELSE @]]

RECURSIVE PatchAll(_, _)
PatchAll(c, ds) ==
    IF ds = <<>> THEN [c EXCEPT !.err = "nil"]
    ELSE LET d == Head(ds)
             deployment == c.snap[d]
             deploymentCopy ==
                 [deployment EXCEPT !.containers =
                     [i \in 1..Len(deployment.containers) |->
                         UpsertEnv(deployment.containers[i], c.sobj.rv)]]
         IN  Then(PatchDeployment(c, d, deployment, deploymentCopy),
                  LAMBDA c1 : PatchAll(c1, Tail(ds)))

\* What another writer does to a deployment: it sets the LOG entries of its
\* containers to "2".
OtherWrite(deployment) ==
    LET Set(env) == [j \in 1..Len(env) |->
                        IF env[j].name = "LOG" THEN [env[j] EXCEPT !.value = "2"]
                        ELSE env[j]]
        containers == [i \in 1..Len(deployment.containers) |->
                          Set(deployment.containers[i])]
    IN  IF containers = deployment.containers THEN deployment
        ELSE [deployment EXCEPT !.containers = containers, !.rv = @ + 1]

\* Between the List and the first Patch of an invocation that another writer
\* races, that writer updates the deployments that were listed.
OtherWriter(c) ==
    IF ~c.writer THEN c
    ELSE [c EXCEPT !.raced = TRUE,
                   !.deps = [d \in Deployments |->
                                IF \E i \in 1..Len(c.listed) : c.listed[i] = d
                                THEN OtherWrite(@[d]) ELSE @[d]]]

\* A faulty notifier whose failed List or Patch is not returned; C14 rejects
\* it.
addEnvToDeploymentsQuiet(c) ==
    [Then(getDeploymentsWithMountedSecret(c),
          LAMBDA c1 : PatchAll(OtherWriter(c1), c1.listed)) EXCEPT !.err = "nil"]

addEnvToDeployments(c) ==
    Then(getDeploymentsWithMountedSecret(c),
         LAMBDA c1 : PatchAll(OtherWriter(c1), c1.listed))

\* ------------------------------------------------- handleCreate, handleDelete
\* A faulty generation that goes on after the validity failed to parse; C32
\* rejects it.
GenerateSelfSignedCertificateUnparsed(c) ==
    LET validity == ParseDuration(c.inst.validity)
        c1 == Attempt(c, <<"Generate", "Certificate">>)
        pair == CreateSelfSignedCertificate(c.inst.dnsName, validity.val,
                                            c.nowMs, c.nowMs, c.issued + 1)
    IN  IF Failing(c) THEN [c1 EXCEPT !.err = "IssuanceError", !.gen = @ + 1]
        ELSE [c1 EXCEPT !.err = "nil", !.gen = @ + 1, !.issued = @ + 1,
                        !.made = pair.cert, !.madeKey = pair.key]

\* GenerateSelfSignedCertificate: the pair is left in c.made, c.madeKey; the
\* clock of an invocation stands still
GenerateSelfSignedCertificate(c) ==
    LET validity == ParseDuration(c.inst.validity)
        c1 == Attempt(c, <<"Generate", "Certificate">>)
        pair == CreateSelfSignedCertificate(c.inst.dnsName, validity.val,
                                            c.nowMs, c.nowMs, c.issued + 1)
    IN  IF validity.err THEN [c EXCEPT !.err = "ValidationError"]
        ELSE IF Failing(c) THEN [c1 EXCEPT !.err = "IssuanceError", !.gen = @ + 1]
        ELSE [c1 EXCEPT !.err = "nil", !.gen = @ + 1, !.issued = @ + 1,
                        !.made = pair.cert, !.madeKey = pair.key]

\* return duration, err
Return(c, duration, err) == [c EXCEPT !.duration = duration, !.err = err]

\* the last statement of handleCreate: return utils.ParseDuration(validity)
ReturnValidity(c) ==
    LET validity == ParseDuration(c.inst.validity)
    IN  Return(c, validity.val, IF validity.err THEN "ValidationError" ELSE "nil")

\* the branch of handleCreate taken when the secret is absent or Event is UPDATE
handleCreateIssue(c, key) ==
    Then(Then(Then(Then(
        GenerateSelfSignedCertificate(c),
        LAMBDA c2 : CreateOrUpdateSecret(
            [c2 EXCEPT !.sobj = [Secret(c2.inst.secretRef, c2.ns) EXCEPT
                !.type = SecretTypeTLS, !.crt = c2.made, !.key = c2.madeKey]],
            key)),
        LAMBDA c3 : IF c3.inst.purgeOnDelete
                    THEN UpdateCertificate(AddFinalizer(c3))
                    ELSE c3),
        LAMBDA c4 : IF c4.inst.reloadOnChange THEN addEnvToDeployments(c4) ELSE c4),
        ReturnValidity)

\* A faulty rotation that notifies the deployments whatever ReloadOnChange
\* says; C18 rejects it.
handleCreateRotateNotifying(c, key) ==
    Then(Then(Then(Then(
        SetStatus(c, StatusRotating, StatusMessageRotating, c.ns, 0),
        GenerateSelfSignedCertificate),
        LAMBDA c3 : CreateOrUpdateSecret(
            [c3 EXCEPT !.sobj = [c3.sobj EXCEPT !.crt = c3.made,
                                                !.key = c3.madeKey]],
            key)),
        addEnvToDeployments),
        ReturnValidity)

\* the branch taken when the stored certificate is expired and RotateOnExpiry
handleCreateRotate(c, key) ==
    Then(Then(Then(Then(
        SetStatus(c, StatusRotating, StatusMessageRotating, c.ns, 0),
        GenerateSelfSignedCertificate),
        LAMBDA c3 : CreateOrUpdateSecret(
            [c3 EXCEPT !.sobj = [c3.sobj EXCEPT !.crt = c3.made,
                                                !.key = c3.madeKey]],
            key)),
        LAMBDA c4 : IF c4.inst.reloadOnChange THEN addEnvToDeployments(c4) ELSE c4),
        ReturnValidity)

\* the branch taken when the secret exists and Event is not UPDATE
handleCreateCheck(c, key) ==
    LET tlsCert == c.sobj.crt
        ok == tlsCert.kind # "none"
        check == IsCertificateExpired(tlsCert, c.nowMs)
    IN  IF ~ok THEN Return(c, 0, "nil")
        ELSE IF check.err THEN Return(c, 0, "DecodeError")
        ELSE IF check.expired
        THEN IF c.inst.rotateOnExpiry
             THEN handleCreateRotate(c, key)
             ELSE Then(SetStatus(c, StatusExpired, StatusMessageExpired, c.ns, 0),
                       ReturnValidity)
        ELSE ReturnValidity(c)

\* A faulty handleCreate that issues on an UPDATE event only and takes an
\* absent secret for nothing to do; C19 rejects it.
handleCreateBranchOnUpdate(c, key) ==
    IF c.err \notin {"nil", "NotFound"} THEN c
    ELSE IF c.event = EventUpdate
    THEN handleCreateIssue([c EXCEPT !.err = "nil"], key)
    ELSE IF c.err = "NotFound" THEN ReturnValidity([c EXCEPT !.err = "nil"])
    ELSE handleCreateCheck(c, key)

\* after the Get of handleCreate
handleCreateBranch(c, key) ==
    IF c.err \notin {"nil", "NotFound"} THEN c
    ELSE IF c.err = "NotFound" \/ c.event = EventUpdate
    THEN handleCreateIssue([c EXCEPT !.err = "nil"], key)
    ELSE handleCreateCheck(c, key)

handleCreate(c) ==
    On(GetSecret([c EXCEPT !.sobj = Secret(c.inst.secretRef, c.ns)],
                 <<c.ns, c.inst.secretRef>>),
       LAMBDA c1 : handleCreateBranch(c1, <<c.ns, c.inst.secretRef>>))

\* A faulty handleDelete that returns without deleting the secret it found;
\* C8 rejects it.
handleDeleteKeep(c, key) ==
    IF c.err \notin {"nil", "NotFound"} THEN c
    ELSE [c EXCEPT !.err = "nil"]

\* A faulty handleDelete that returns NotFound as an error; C11 rejects it.
handleDeleteStrict(c, key) ==
    IF c.err # "nil" THEN c
    ELSE DeleteSecret(c, key)

\* after the Get of handleDelete
handleDeleteBranch(c, key) ==
    IF c.err \notin {"nil", "NotFound"} THEN c
    ELSE IF c.err = "NotFound" THEN [c EXCEPT !.err = "nil"]
    ELSE DeleteSecret(c, key)

handleDelete(c) ==
    On(GetSecret([c EXCEPT !.sobj = Secret(c.inst.secretRef, c.ns)],
                 <<c.ns, c.inst.secretRef>>),
       LAMBDA c1 : handleDeleteBranch(c1, <<c.ns, c.inst.secretRef>>))

\* ------------------------------------------------------------------ Reconcile
DoNotRequeue(c) == [c EXCEPT !.result = NoResult, !.reterr = "nil"]

RequeueWithError(c) == [c EXCEPT !.result = NoResult, !.reterr = c.err]

RequeueAfter(c, requeueTime) ==
    [c EXCEPT !.result = [requeue |-> TRUE, after |-> requeueTime],
              !.reterr = "nil"]

\* the return of Reconcile: an error of any call made is returned with
\* RequeueWithError, otherwise Done says what is
Finish(c, Done(_)) ==
    CHOOSE after \in {IF x.err # "nil" THEN RequeueWithError(x) ELSE Done(x) :
                       x \in {c}} : TRUE

\* A faulty deletion branch that purges whatever purgeOnDelete says; C9
\* rejects it.
ReconcileDeletionAlways(c) ==
    Finish(
        Then(Then(
            SetStatus(c, StatusDeleting, StatusMessageDeleting, c.ns, 0),
            handleDelete),
            LAMBDA c3 : UpdateCertificate(RemoveFinalizer(c3))),
        DoNotRequeue)

\* A faulty deletion branch that goes on to remove the finalizer when
\* handleDelete returned an error; C10 rejects it.
ReconcileDeletionIgnoringError(c) ==
    IF ~c.inst.purgeOnDelete THEN DoNotRequeue(c)
    ELSE Finish(
        Then(
            SetStatus(c, StatusDeleting, StatusMessageDeleting, c.ns, 0),
            LAMBDA c2 : UpdateCertificate(RemoveFinalizer(
                            [handleDelete(c2) EXCEPT !.err = "nil"]))),
        DoNotRequeue)

\* the deletion branch of Reconcile
ReconcileDeletion(c) ==
    IF ~c.inst.purgeOnDelete THEN DoNotRequeue(c)
    ELSE Finish(
        Then(Then(
            SetStatus(c, StatusDeleting, StatusMessageDeleting, c.ns, 0),
            handleDelete),
            LAMBDA c3 : UpdateCertificate(RemoveFinalizer(c3))),
        DoNotRequeue)

\* A faulty branch that writes phase Deployed before handleCreate; C34
\* rejects it.
ReconcileActiveDeployedFirst(c) ==
    Finish(
        Then(Then(
            SetStatus(c, StatusReconciling, StatusMessageReconciling, c.ns, 0),
            LAMBDA c2 : SetStatus(c2, StatusDeployed, StatusMessageDeployed,
                                  c2.ns, 0)),
            handleCreate),
        LAMBDA c4 : IF c4.inst.rotateOnExpiry
                    THEN RequeueAfter(c4, c4.duration)
                    ELSE DoNotRequeue(c4))

\* the create/update branch of Reconcile
ReconcileActive(c) ==
    Finish(
        Then(Then(
            SetStatus(c, StatusReconciling, StatusMessageReconciling, c.ns, 0),
            handleCreate),
            LAMBDA c3 : IF c3.inst.status # StatusExpired
                        THEN SetStatus(c3, StatusDeployed, StatusMessageDeployed,
                                       c3.ns, c3.duration)
                        ELSE c3),
        LAMBDA c4 : IF c4.inst.rotateOnExpiry
                    THEN RequeueAfter(c4, c4.duration)
                    ELSE DoNotRequeue(c4))

\* A faulty Reconcile that returns NotFound to the caller as an error; C12
\* rejects it.
ReconcileBranchStrict(c) ==
    IF c.err # "nil" THEN RequeueWithError(c)
    ELSE IF c.inst.deleting THEN ReconcileDeletion(c)
    ELSE ReconcileActive(c)

\* after the Get of Reconcile
ReconcileBranch(c) ==
    IF c.err = "NotFound" THEN DoNotRequeue(c)
    ELSE IF c.err # "nil" THEN RequeueWithError(c)
    ELSE IF c.inst.deleting THEN ReconcileDeletion(c)
    ELSE ReconcileActive(c)

ReconcileRun(c) == On(GetCertificate(c), ReconcileBranch)

\* the context an invocation for request r starts from
Enter(r, fail, writer) ==
    [ns |-> NamespaceOf(r), obj |-> cr[r], inst |-> NoCR, secrets |-> secrets,
     deps |-> deployments, sobj |-> NoSecret, listed |-> <<>>,
     snap |-> deployments, writer |-> writer, raced |-> FALSE,
     event |-> Event, nowMs |-> NowMs, issued |-> issued, rvc |-> rvc,
     n |-> 0, fail |-> fail, trace |-> <<>>, gen |-> 0,
     made |-> NoCert, madeKey |-> NoKey, created |-> FALSE, err |-> "nil",
     duration |-> 0, result |-> NoResult, reterr |-> "nil"]

\* what is recorded of an invocation: the event that caused it, the call that
\* failed, what it returned, the calls it made, and the certificate it
\* generated
Record(r, c) ==
    [req |-> r, trigger |-> pending[r], fail |-> c.fail, err |-> c.reterr,
     result |-> c.result,
     trace |-> c.trace, gen |-> c.gen, made |-> c.made, raced |-> c.raced]

\* The work queue after an invocation: the request is forgotten when it
\* returned no error; when it returned an error the request is queued again,
\* still for the event it was queued for, or as a retry.
Requeued(event, reterr) ==
    IF reterr = "nil" THEN "none"
    ELSE IF event = "none" THEN "retry"
    ELSE event

\* what an invocation for r that ended in context c leaves behind
Commit(r, c) ==
    /\ c.issued <= MaxIssued
    /\ c.fail <= c.n
    /\ cr' = [cr EXCEPT ![r] = c.obj]
    /\ secrets' = c.secrets
    /\ deployments' = c.deps
    /\ issued' = c.issued
    /\ rvc' = c.rvc
    /\ pending' = [pending EXCEPT ![r] = Requeued(@, c.reterr)]
    /\ watchQ' = (watchQ \/ c.created)
    /\ last' = Record(r, c)
    /\ UNCHANGED <<arg, out, Event, now, userOps>>

\* The host invokes Reconcile for request r: after an event for r, on a timed
\* requeue, on a resync, or again for a delivery it repeats.
Reconcile(r) ==
    \E fail \in 0..MaxOps :
        \E c0 \in {Enter(r, fail, FALSE)} :
            \E c \in {ReconcileRun(c0)} : Commit(r, c)

\* An invocation of Reconcile for r during which another writer updates the
\* deployments its notifier has listed.
ReconcileRaced(r) ==
    \E fail \in 0..MaxOps :
        \E c0 \in {Enter(r, fail, TRUE)} :
            \E c \in {ReconcileRun(c0)} : c.raced /\ Commit(r, c)

\* ------------------------------------------------------- the environment
\* In the actions of users, U is the set of specs they may give and max the
\* number of operations they make.

\* A user creates the Certificate; the create predicate sets Event.
CreateCR(r, U, max) ==
    \E spec \in InitialSpecs(U) :
        /\ ~cr[r].exists
        /\ userOps < max
        /\ cr' = [cr EXCEPT ![r] = NewCR(spec)]
        /\ Event' = EventCreate
        /\ pending' = [pending EXCEPT ![r] = "create"]
        /\ userOps' = userOps + 1
        /\ last' = NoLast
        /\ UNCHANGED <<arg, out, secrets, deployments, now, issued, rvc, watchQ>>

\* UpdateFunc of the event predicate: TRUE iff the specs differ, and then
\* Event is set
UpdateFunc(oldSpec, newSpec) == oldSpec # newSpec

\* A user edits the spec of the Certificate.
UpdateSpec(r, U, max) ==
    \E spec \in Edits(U, SpecOf(cr[r])) :
        /\ cr[r].exists
        /\ userOps < max
        /\ UpdateFunc(SpecOf(cr[r]), spec)
        /\ cr' = [cr EXCEPT ![r] = [NewCR(spec) EXCEPT
                      !.deleting = cr[r].deleting, !.finalizer = cr[r].finalizer,
                      !.status = cr[r].status, !.message = cr[r].message,
                      !.deployedNamespace = cr[r].deployedNamespace,
                      !.expiryDate = cr[r].expiryDate]]
        /\ Event' = EventUpdate
        /\ pending' = [pending EXCEPT ![r] = "change"]
        /\ userOps' = userOps + 1
        /\ last' = NoLast
        /\ UNCHANGED <<arg, out, secrets, deployments, now, issued, rvc, watchQ>>

\* A user deletes the Certificate: with a finalizer it is marked for deletion
\* (an update with equal specs, which the predicate drops), without one it is
\* gone.
DeleteCR(r, max) ==
    /\ cr[r].exists
    /\ ~cr[r].deleting
    /\ userOps < max
    /\ cr' = [cr EXCEPT ![r] = IF cr[r].finalizer
                               THEN [cr[r] EXCEPT !.deleting = TRUE]
                               ELSE NoCR]
    /\ userOps' = userOps + 1
    /\ last' = NoLast
    /\ UNCHANGED <<arg, out, secrets, deployments, Event, now, issued, rvc, pending,
                   watchQ>>

\* Someone deletes a Secret.
DeleteSecretExternally(k, max) ==
    /\ secrets[k].exists
    /\ userOps < max
    /\ secrets' = [secrets EXCEPT ![k] = NoSecret]
    /\ userOps' = userOps + 1
    /\ last' = NoLast
    /\ UNCHANGED <<arg, out, cr, deployments, Event, now, issued, rvc, pending, watchQ>>

\* Someone creates a Secret that holds no tls.crt under the name a request
\* refers to; its create event is on its way to the predicate.
CreateSecretExternally(k, max) ==
    /\ ~secrets[k].exists
    /\ userOps < max
    /\ secrets' = [secrets EXCEPT ![k] =
                       [NoSecret EXCEPT !.exists = TRUE, !.type = "Opaque",
                                        !.rv = rvc + 1]]
    /\ rvc' = rvc + 1
    /\ watchQ' = TRUE
    /\ userOps' = userOps + 1
    /\ last' = NoLast
    /\ UNCHANGED <<arg, out, cr, deployments, Event, now, issued, pending>>

\* tls.crt texts that are no certificate: one pem.Decode finds no block in,
\* and a PEM block whose bytes x509.ParseCertificate refuses
NotPem == [NoCert EXCEPT !.kind = "TEXT"]
BadDer == [NoCert EXCEPT !.kind = "BADDER"]

\* Someone creates, under the name a request refers to, a Secret whose
\* tls.crt is no certificate.
CreateSecretUndecodable(k, max) ==
    /\ ~secrets[k].exists
    /\ userOps < max
    /\ \E crt \in {NotPem, BadDer} :
           secrets' = [secrets EXCEPT ![k] =
                          [NoSecret EXCEPT !.exists = TRUE,
                                           !.type = SecretTypeTLS,
                                           !.crt = crt, !.rv = rvc + 1]]
    /\ rvc' = rvc + 1
    /\ watchQ' = TRUE
    /\ userOps' = userOps + 1
    /\ last' = NoLast
    /\ UNCHANGED <<arg, out, cr, deployments, Event, now, issued, pending>>

\* The create event of a Secret reaches the predicate.
SecretCreateEvent ==
    /\ watchQ
    /\ watchQ' = FALSE
    /\ Event' = EventCreate
    /\ last' = NoLast
    /\ UNCHANGED <<arg, out, cr, secrets, deployments, now, issued, rvc, pending, userOps>>

Tick ==
    /\ now < MaxTime
    /\ now' = now + 1
    /\ last' = NoLast
    /\ UNCHANGED <<arg, out, cr, secrets, deployments, Event, issued, rvc, pending, watchQ,
                   userOps>>

\* Rotation and edits of one request.
Next ==
    \/ Reconcile("a")
    \/ CreateCR("a", LifeSpecs, MaxUserOps)
    \/ UpdateSpec("a", LifeSpecs, MaxUserOps)
    \/ DeleteCR("a", MaxUserOps)
    \/ DeleteSecretExternally(<<"ns1", "s1">>, MaxUserOps)
    \/ CreateSecretExternally(<<"ns1", "s1">>, MaxUserOps)
    \/ SecretCreateEvent
    \/ Tick

Spec == Init /\ [][Next]_vars

\* Deletion of one request.
NextPurge ==
    \/ Reconcile("a")
    \/ CreateCR("a", PurgeSpecs, MaxPurgeOps)
    \/ UpdateSpec("a", PurgeSpecs, MaxPurgeOps)
    \/ DeleteCR("a", MaxPurgeOps)
    \/ DeleteSecretExternally(<<"ns1", "s1">>, MaxPurgeOps)
    \/ SecretCreateEvent

SpecPurge == Init /\ [][NextPurge]_vars

\* The host invokes Reconcile for a request the work queue holds, and the
\* calls of the invocation succeed.
Retried(r) ==
    /\ pending[r] # "none"
    /\ \E c0 \in {Enter(r, 0, FALSE)} :
           \E c \in {ReconcileRun(c0)} : Commit(r, c)

\* The work queue holds r and the bound on issuance leaves room for an
\* invocation: Retried(r) is then enabled (RetriedIsEnabled).
Owed(r) ==
    /\ pending[r] # "none"
    /\ cr[r].deleting \/ issued < MaxIssued

RetriedIsEnabled == \A r \in Requests : Owed(r) => ENABLED <<Retried(r)>>_vars

\* Weak fairness of Retried(r), with its enabling condition and its steps
\* written out: a request that stays queued is in the end reconciled with
\* every call succeeding, as a host that retries with backoff does once the
\* stores answer.
RetryFairness(r) ==
    \/ []<>(~Owed(r))
    \/ []<><<pending[r] # "none" /\ last'.req = r /\ last'.fail = 0>>_vars

\* Deletion of one request under that fairness.
SpecPurgeRetry == SpecPurge /\ \A r \in Requests : RetryFairness(r)

\* The host invokes Reconcile for r, queued or on a resync, and the calls of
\* the invocation succeed.
Resynced(r) ==
    \E c0 \in {Enter(r, 0, FALSE)} :
        \E c \in {ReconcileRun(c0)} : Commit(r, c)

\* Deletion of one request whose purge flag is edited, the request being
\* reconciled without error again and again: the host invokes Reconcile on
\* every event and on every resync, and the stores answer in the end.
NextUnblock ==
    \/ Reconcile("a")
    \/ CreateCR("a", UnblockSpecs, MaxUnblockOps)
    \/ UpdateSpec("a", UnblockSpecs, MaxUnblockOps)
    \/ DeleteCR("a", MaxUnblockOps)
    \/ SecretCreateEvent

SpecUnblock == Init /\ [][NextUnblock]_vars /\ WF_vars(Resynced("a"))

\* One request with reloadOnChange and without rotation, so that no timed
\* requeue comes: the host retries its failed invocations until the calls
\* succeed.
NextNotify ==
    \/ Reconcile("a")
    \/ CreateCR("a", NotifySpecs, MaxNotifyOps)
    \/ UpdateSpec("a", NotifySpecs, MaxNotifyOps)
    \/ SecretCreateEvent

SpecNotify == Init /\ [][NextNotify]_vars /\ WF_vars(Retried("a"))

\* One request whose validity is edited to a text the parser refuses, over a
\* secret that is absent, valid or expired.
NextMalformed ==
    \/ Reconcile("a")
    \/ CreateCR("a", MalformedSpecs, MaxMalformedOps)
    \/ UpdateSpec("a", MalformedSpecs, MaxMalformedOps)
    \/ DeleteSecretExternally(<<"ns1", "s1">>, MaxMalformedOps)
    \/ SecretCreateEvent
    \/ Tick

SpecMalformed == Init /\ [][NextMalformed]_vars

\* Two requests with reloadOnChange in two namespaces, their secrets of one
\* name; the deployments are in the namespace of "a".
NextFrame ==
    \/ \E r \in Requests : Reconcile(r)
    \/ \E r \in Requests : CreateCR(r, NotifySpecs, MaxFrameOps)
    \/ \E r \in Requests : UpdateSpec(r, NotifySpecs, MaxFrameOps)
    \/ SecretCreateEvent

SpecFrame == Init /\ [][NextFrame]_vars

\* One request whose validity, or whose stored certificate, the parsers may
\* refuse.
NextValidity ==
    \/ Reconcile("a")
    \/ CreateCR("a", ValiditySpecs, MaxValidityOps)
    \/ UpdateSpec("a", ValiditySpecs, MaxValidityOps)
    \/ CreateSecretUndecodable(<<"ns1", "s1">>, MaxValidityOps)
    \/ SecretCreateEvent
    \/ Tick

SpecValidity == Init /\ [][NextValidity]_vars

\* One request with reloadOnChange, and another writer of the deployments.
NextRace ==
    \/ Reconcile("a")
    \/ ReconcileRaced("a")
    \/ CreateCR("a", RaceSpecs, MaxRaceOps)
    \/ UpdateSpec("a", RaceSpecs, MaxRaceOps)
    \/ DeleteSecretExternally(<<"ns1", "s1">>, MaxRaceOps)
    \/ SecretCreateEvent

SpecRace == Init /\ [][NextRace]_vars

\* ParseDuration called on its own, on every text of up to MaxLen characters.
Alphabet == {"0", "1", "2", "s", "m", "h", "d", "x", "-"}

Texts == UNION {[1..n -> Alphabet] : n \in 1..MaxLen}

InitParse ==
    /\ InitProgram
    /\ arg \in Texts
    /\ out = NoOut

ApplyParseDuration ==
    /\ ~out.done
    /\ out' = [done |-> TRUE, res |-> ParseDuration(arg)]
    /\ UNCHANGED <<program, arg>>

NextParse == ApplyParseDuration

SpecParse == InitParse /\ [][NextParse]_vars

\* IsCertificateExpired called on its own: on a certificate issued at one
\* time for a validity of zero, one or two seconds, at another time; the
\* times are half seconds.
HalfSecond == Second \div 2

ExpiryArgs ==
    [validity : {0, Second, 2 * Second},
     issuedAt : {k * HalfSecond : k \in 0..MaxHalfSeconds},
     now : {k * HalfSecond : k \in 0..MaxHalfSeconds}]

\* the certificate of an argument
IssuedFor(a) ==
    CreateSelfSignedCertificate("x.io", a.validity, a.issuedAt, a.issuedAt, 1).cert

InitExpiry ==
    /\ InitProgram
    /\ arg \in ExpiryArgs
    /\ out = NoOut

ApplyIsCertificateExpired ==
    /\ ~out.done
    /\ out' = [done |-> TRUE, res |-> IsCertificateExpired(IssuedFor(arg), arg.now)]
    /\ UNCHANGED <<program, arg>>

NextExpiry == ApplyIsCertificateExpired

SpecExpiry == InitExpiry /\ [][NextExpiry]_vars

\* CreateSelfSignedCertificate called on its own: for a name and a validity
\* of whole seconds, with the clock read at t1 and then at t2, the same half
\* second or the next.
IssueArgs ==
    {a \in [dnsName : {"x.io", "y.io"},
            validity : {0, Second, 2 * Second},
            t1 : {k * HalfSecond : k \in 0..MaxHalfSeconds},
            t2 : {k * HalfSecond : k \in 0..(MaxHalfSeconds + 1)}] :
        a.t2 \in {a.t1, a.t1 + HalfSecond}}

InitIssue ==
    /\ InitProgram
    /\ arg \in IssueArgs
    /\ out = NoOut

ApplyCreateSelfSignedCertificate ==
    /\ ~out.done
    /\ out' = [done |-> TRUE,
               res |-> CreateSelfSignedCertificate(arg.dnsName, arg.validity,
                                                   arg.t1, arg.t2, 1)]
    /\ UNCHANGED <<program, arg>>

NextIssue == ApplyCreateSelfSignedCertificate

SpecIssue == InitIssue /\ [][NextIssue]_vars

\* One request whose secretRef is edited, and its deletion.
NextRename ==
    \/ Reconcile("a")
    \/ CreateCR("a", RenameSpecs, MaxRenameOps)
    \/ UpdateSpec("a", RenameSpecs, MaxRenameOps)
    \/ DeleteCR("a", MaxRenameOps)
    \/ SecretCreateEvent

SpecRename == Init /\ [][NextRename]_vars

\* MapSecretsToCertificates: the certificates of all namespaces are listed,
\* "a" of ns1 before "b" and "c" of ns2; the request of the first one whose
\* secretRef has the name of the secret is returned, and nothing when there
\* is none or the list fails
MapSecretsToCertificates(secret, certificates, listFails) ==
    LET Refers(r) == /\ certificates[r].exists
                     /\ certificates[r].secretRef = secret[2]
        referring == SelectSeq(<<"a", "b", "c">>, Refers)
    IN  IF listFails \/ referring = <<>> THEN <<>>
        ELSE <<Head(referring)>>

\* MapSecretsToCertificates called on its own: for the event of a secret of
\* either namespace and name, over certificates that exist or not and refer
\* to either name.
InitMap ==
    /\ InitProgram
    /\ arg \in [secret : SecretKeys,
                certificates : [{"a", "b", "c"} ->
                                   [exists : BOOLEAN, secretRef : SecretNames]],
                listFails : BOOLEAN]
    /\ out = NoOut

ApplyMapSecretsToCertificates ==
    /\ ~out.done
    /\ out' = [done |-> TRUE,
               res |-> MapSecretsToCertificates(arg.secret, arg.certificates,
                                                arg.listFails)]
    /\ UNCHANGED <<program, arg>>

NextMap == ApplyMapSecretsToCertificates

SpecMap == InitMap /\ [][NextMap]_vars

\* Two requests in two namespaces.
NextTwo ==
    \/ \E r \in Requests : Reconcile(r)
    \/ \E r \in Requests : CreateCR(r, TwoSpecs(r), MaxTwoOps)
    \/ UpdateSpec("b", TwoSpecs("b"), MaxTwoOps)
    \/ SecretCreateEvent

SpecTwo == Init /\ [][NextTwo]_vars

\* ----------------------------------------------------------------- properties
\* A step with last'.req = r is one invocation of Reconcile for r: the
\* unprimed variables are the state it starts in, the primed ones the state
\* it leaves, and last' what it returned and the calls it made.

KeyOf(r) == <<NamespaceOf(r), cr[r].secretRef>>

Active(r) == cr[r].exists /\ ~cr[r].deleting

DeletionRequested(r) == cr[r].exists /\ cr[r].deleting

HasMaterial(r) == secrets[KeyOf(r)].exists

StoredExpired(r) ==
    /\ HasMaterial(r)
    /\ IsCertificateExpired(secrets[KeyOf(r)].crt, NowMs).expired

StoredUnexpired(r) ==
    /\ HasMaterial(r)
    /\ secrets[KeyOf(r)].crt.kind = TypeCertificate
    /\ ~IsCertificateExpired(secrets[KeyOf(r)].crt, NowMs).expired

\* the private key that belongs to a certificate
KeyFor(cert) == [kind |-> TypePrivateKey, serial |-> cert.serial]

\* the calls of kind op ("Get", "Patch", ...) an invocation made
Calls(l, op) == {i \in 1..Len(l.trace) : l.trace[i][1] = op}

Called(l, call) == \E i \in 1..Len(l.trace) : l.trace[i] = call

\* the call that failed in an invocation was one of these
FailedAt(l, calls) == l.fail > 0 /\ l.trace[l.fail] \in calls

\* C1: when Reconcile runs for an active request whose stored certificate is
\* expired and rotateOnExpiry is true, and returns without error, the secret
\* at secretRef afterwards holds the certificate and key generated in that
\* invocation, the phase is Deployed, and the result requeues after the parsed
\* validity.
C1_RotationReplacesMaterial ==
    [][\A r \in Requests :
        (/\ last'.req = r
         /\ Active(r)
         /\ StoredExpired(r)
         /\ cr[r].rotateOnExpiry
         /\ last'.err = "nil")
        => /\ last'.made # NoCert
           /\ secrets'[KeyOf(r)].crt = last'.made
           /\ secrets'[KeyOf(r)].key = KeyFor(last'.made)
           /\ cr'[r].status = StatusDeployed
           /\ last'.result = [requeue |-> TRUE,
                              after |-> ParseDuration(cr[r].validity).val]]_vars

\* an invocation has rotated an expired certificate and returned no error,
\* and the secret holds the expired certificate, not the one it generated
C1_Witness ==
    /\ last.req = "a"
    /\ last.err = "nil"
    /\ Called(last, <<"Status", StatusRotating>>)
    /\ last.made # NoCert
    /\ secrets[<<"ns1", "s1">>].crt # last.made
    /\ IsCertificateExpired(secrets[<<"ns1", "s1">>].crt, NowMs).expired

\* C2: when Reconcile runs for an active request because its spec changed
\* while material exists at secretRef, and returns without error, the stored
\* certificate and key afterwards are the ones generated in that invocation
\* for the current dnsName and validity.
C2_ChangeReplacesMaterial ==
    [][\A r \in Requests :
        (/\ last'.req = r
         /\ Active(r)
         /\ pending[r] = "change"
         /\ HasMaterial(r)
         /\ last'.err = "nil")
        => /\ last'.made # NoCert
           /\ last'.made.cn = cr[r].dnsName
           /\ last'.made.notAfter =
                  TruncSec(NowMs + ParseDuration(cr[r].validity).val)
           /\ secrets'[KeyOf(r)].crt = last'.made
           /\ secrets'[KeyOf(r)].key = KeyFor(last'.made)]_vars

\* an invocation caused by a spec change has generated a certificate and
\* returned no error, and the secret holds another certificate
C2_Witness ==
    /\ last.req = "a"
    /\ last.trigger = "change"
    /\ last.err = "nil"
    /\ last.gen = 1
    /\ secrets[<<"ns1", "s1">>].exists
    /\ secrets[<<"ns1", "s1">>].crt # last.made

\* C3: reconciling an active request with no material at secretRef returns no
\* error unless a call fails or the validity is malformed, and when it
\* returns no error it has generated one certificate and created one secret,
\* at (request namespace, secretRef) and nowhere else, holding that
\* certificate and its private key, and the phase is Deployed with
\* deployedNamespace the request's namespace.
C3_FirstIssuance ==
    [][\A r \in Requests :
        (/\ last'.req = r
         /\ Active(r)
         /\ ~HasMaterial(r))
        => /\ (last'.fail = 0 /\ ~ParseDuration(cr[r].validity).err)
                  => last'.err = "nil"
           /\ last'.err = "nil"
                  => /\ last'.gen = 1
                     /\ Cardinality(Calls(last', "Create")) = 1
                     /\ secrets'[KeyOf(r)].exists
                     /\ secrets'[KeyOf(r)].crt = last'.made
                     /\ secrets'[KeyOf(r)].crt.kind = TypeCertificate
                     /\ secrets'[KeyOf(r)].key = KeyFor(last'.made)
                     /\ \A k \in SecretKeys \ {KeyOf(r)} :
                            secrets'[k] = secrets[k]
                     /\ cr'[r].status = StatusDeployed
                     /\ cr'[r].deployedNamespace = NamespaceOf(r)]_vars

\* a first issuance has happened: the last invocation created the secret of
\* its request and returned no error
C3_Witness ==
    /\ last.req = "a"
    /\ last.err = "nil"
    /\ Called(last, <<"Create", "Secret">>)
    /\ secrets[<<"ns1", "s1">>].crt = last.made
    /\ cr["a"].status = StatusDeployed

\* C4: a reconcile of a request that has issued material, with no spec change
\* pending and unexpired material, leaves the stored certificate and key as
\* they are, generates no certificate and patches no workload.
C4_Idempotence ==
    [][\A r \in Requests :
        (/\ last'.req = r
         /\ Active(r)
         /\ pending[r] = "none"
         /\ StoredUnexpired(r))
        => /\ secrets'[KeyOf(r)].crt = secrets[KeyOf(r)].crt
           /\ secrets'[KeyOf(r)].key = secrets[KeyOf(r)].key
           /\ last'.gen = 0
           /\ Calls(last', "Patch") = {}]_vars

\* an invocation with no event pending, over a secret it did not create and
\* whose certificate is unexpired, has called the generator and patched a
\* workload
C4_Witness ==
    /\ last.req = "a"
    /\ last.trigger = "none"
    /\ last.gen = 1
    /\ Calls(last, "Patch") # {}
    /\ ~Called(last, <<"Create", "Secret">>)
    /\ ~IsCertificateExpired(secrets[<<"ns1", "s1">>].crt, NowMs).expired

\* C5: request "a", whose spec is never edited, is not regenerated by an
\* invocation that no change of its spec caused and that finds unexpired
\* material, whatever events and reconciles of request "b" come between.
C5_NoCrossRequestState ==
    [][(/\ last'.req = "a"
        /\ Active("a")
        /\ pending["a"] # "change"
        /\ StoredUnexpired("a"))
       => /\ last'.gen = 0
          /\ secrets'[KeyOf("a")] = secrets[KeyOf("a")]]_vars

\* after an edit of "b", an invocation for "a" that no event of "a" caused
\* has generated a certificate over the secret "a" already had
C5_Witness ==
    /\ last.req = "a"
    /\ last.trigger = "none"
    /\ last.gen = 1
    /\ Event = EventUpdate
    /\ cr["b"].exists
    /\ secrets[<<"ns1", "s1">>].exists
    /\ secrets[<<"ns1", "s1">>].crt # last.made

\* C6: an invocation for a request that no event of the request caused (a
\* timed requeue, a resync, a repeated delivery) and that finds unexpired
\* material generates no certificate and leaves the material as it is, and
\* the phase ends Deployed when it returns no error.
C6_RedeliveryNeverRegenerates ==
    [][\A r \in Requests :
        (/\ last'.req = r
         /\ Active(r)
         /\ pending[r] = "none"
         /\ StoredUnexpired(r))
        => /\ last'.gen = 0
           /\ secrets'[KeyOf(r)] = secrets[KeyOf(r)]
           /\ last'.err = "nil" => cr'[r].status = StatusDeployed]_vars

\* an invocation with no event pending has generated a certificate and
\* returned no error, over an unexpired certificate that is still stored
C6_Witness ==
    /\ last.req = "a"
    /\ last.trigger = "none"
    /\ last.err = "nil"
    /\ last.gen = 1
    /\ secrets[<<"ns1", "s1">>].crt # last.made
    /\ secrets[<<"ns1", "s1">>].crt.kind = TypeCertificate
    /\ ~IsCertificateExpired(secrets[<<"ns1", "s1">>].crt, NowMs).expired

\* C7: when Reconcile runs for an active request whose stored certificate is
\* expired and rotateOnExpiry is false, with no spec change pending, and
\* returns no error, the phase afterwards is Expired, the stored material is
\* unchanged and the result is none.
C7_ExpiredWithoutRotation ==
    [][\A r \in Requests :
        (/\ last'.req = r
         /\ Active(r)
         /\ pending[r] # "change"
         /\ StoredExpired(r)
         /\ ~cr[r].rotateOnExpiry
         /\ last'.err = "nil")
        => /\ cr'[r].status = StatusExpired
           /\ secrets'[KeyOf(r)] = secrets[KeyOf(r)]
           /\ last'.result = NoResult]_vars

\* an invocation with no event pending, for a request without rotation whose
\* stored certificate is expired, has returned no error and left the phase
\* Deployed
C7_Witness ==
    /\ last.req = "a"
    /\ last.trigger = "none"
    /\ last.err = "nil"
    /\ ~cr["a"].rotateOnExpiry
    /\ secrets[<<"ns1", "s1">>].crt # last.made
    /\ IsCertificateExpired(secrets[<<"ns1", "s1">>].crt, NowMs).expired
    /\ cr["a"].status = StatusDeployed

\* C8: when Reconcile runs for a deletion-requested request with
\* purgeOnDelete and returns without error, phase Deleting was written, no
\* material exists at secretRef, the finalizer is cleared and the result is
\* none; with the material already absent it returns no error unless a call
\* fails.
C8_PurgeOnDelete ==
    [][\A r \in Requests :
        (/\ last'.req = r
         /\ DeletionRequested(r)
         /\ cr[r].purgeOnDelete)
        => /\ last'.err = "nil"
                  => /\ Called(last', <<"Status", StatusDeleting>>)
                     /\ ~secrets'[KeyOf(r)].exists
                     /\ ~cr'[r].finalizer
                     /\ last'.result = NoResult
           /\ (~HasMaterial(r) /\ last'.fail = 0) => last'.err = "nil"]_vars

\* a purge has happened: the last invocation wrote phase Deleting, deleted
\* the secret, and the request with its finalizer is gone
C8_Witness ==
    /\ last.req = "a"
    /\ last.err = "nil"
    /\ Called(last, <<"Status", StatusDeleting>>)
    /\ Called(last, <<"Delete", "Secret">>)
    /\ ~secrets[<<"ns1", "s1">>].exists
    /\ ~cr["a"].exists

\* C9: for a request that is deleted with purgeOnDelete false (marked for
\* deletion, or already gone) no invocation creates, updates or deletes a
\* secret: the secrets are afterwards as they were, and the invocation returns
\* none without error unless a call fails.
C9_NoPurgeWhenDisabled ==
    [][\A r \in Requests :
        (/\ last'.req = r
         /\ \/ ~cr[r].exists
            \/ DeletionRequested(r) /\ ~cr[r].purgeOnDelete)
        => /\ secrets' = secrets
           /\ Calls(last', "Create") \cup Calls(last', "Update")
                  \cup Calls(last', "Delete") = {}
           /\ last'.result = NoResult
           /\ last'.fail = 0 => last'.err = "nil"]_vars

\* a request that holds the finalizer, with purgeOnDelete edited to false,
\* has been marked for deletion and reconciled, and its material is there
C9_Witness ==
    /\ last.req = "a"
    /\ last.err = "nil"
    /\ cr["a"].deleting
    /\ ~cr["a"].purgeOnDelete
    /\ Len(last.trace) = 1
    /\ secrets[<<"ns1", "s1">>].exists

\* C10: an invocation clears the finalizer of a request only into a state
\* where no material exists at secretRef; and when reading or deleting the
\* material fails during a purge, the invocation returns an error and the
\* request still holds the finalizer.
C10_PurgeOrdering ==
    [][\A r \in Requests :
        (last'.req = r /\ cr[r].exists)
        => /\ (cr[r].finalizer /\ ~cr'[r].finalizer)
                  => ~secrets'[KeyOf(r)].exists
           /\ (/\ DeletionRequested(r)
               /\ cr[r].purgeOnDelete
               /\ FailedAt(last', {<<"Get", "Secret">>, <<"Delete", "Secret">>}))
                  => /\ last'.err # "nil"
                     /\ cr'[r].exists
                     /\ cr'[r].finalizer]_vars

\* deleting the material failed during a purge: the material and the
\* finalizer are both still there
C10_Witness ==
    /\ last.req = "a"
    /\ last.err # "nil"
    /\ FailedAt(last, {<<"Delete", "Secret">>})
    /\ cr["a"].deleting
    /\ cr["a"].finalizer
    /\ secrets[<<"ns1", "s1">>].exists

\* C11: when a call fails in the purge of a request, the invocation returns
\* an error and the request is still there with its finalizer; and, the host
\* retrying until the calls succeed, the request is in the end gone, unless
\* purgeOnDelete is edited to false in between.
C11_PurgeCompletesUnderRetry ==
    /\ [][\A r \in Requests :
            (/\ last'.req = r
             /\ DeletionRequested(r)
             /\ cr[r].purgeOnDelete
             /\ last'.fail > 0)
            => /\ last'.err # "nil"
               /\ cr'[r].exists
               /\ cr'[r].finalizer
               /\ pending'[r] # "none"]_vars
    /\ \A r \in Requests :
           (/\ DeletionRequested(r)
            /\ cr[r].purgeOnDelete
            /\ last.req = r
            /\ last.err # "nil")
           ~> (~cr[r].exists \/ ~cr[r].purgeOnDelete)

\* the material was deleted and clearing the finalizer failed: the request
\* is there with its finalizer, without material, queued for a retry
C11_Witness ==
    /\ last.req = "a"
    /\ last.err # "nil"
    /\ FailedAt(last, {<<"Update", "Certificate">>})
    /\ Called(last, <<"Delete", "Secret">>)
    /\ cr["a"].deleting
    /\ cr["a"].finalizer
    /\ ~secrets[<<"ns1", "s1">>].exists
    /\ pending["a"] = "retry"

\* C12: an invocation for a request that does not exist writes nothing to
\* the requests, the secrets or the deployments, and when its Get does not
\* fail it makes no other call and returns none without error.
C12_RequestNotFound ==
    [][\A r \in Requests :
        (last'.req = r /\ ~cr[r].exists)
        => /\ cr' = cr
           /\ secrets' = secrets
           /\ deployments' = deployments
           /\ last'.fail = 0
                  => /\ last'.err = "nil"
                     /\ last'.result = NoResult
                     /\ last'.trace = << <<"Get", "Certificate">> >>]_vars

\* an invocation for a request that is gone has returned none without
\* error, and the material the request left behind is there
C12_Witness ==
    /\ last.req = "a"
    /\ ~cr["a"].exists
    /\ last.err = "nil"
    /\ last.result = NoResult
    /\ last.trace = << <<"Get", "Certificate">> >>
    /\ secrets[<<"ns1", "s1">>].crt.kind = TypeCertificate

\* C13: every invocation for an existing request that returns no error
\* returns none when deletion is requested or rotateOnExpiry is false, and
\* otherwise requeues after the parsed validity, whatever is stored at
\* secretRef.
C13_RequeueContract ==
    [][\A r \in Requests :
        (/\ last'.req = r
         /\ cr[r].exists
         /\ last'.err = "nil")
        => last'.result =
               IF cr[r].deleting \/ ~cr[r].rotateOnExpiry
               THEN NoResult
               ELSE [requeue |-> TRUE,
                     after |-> ParseDuration(cr[r].validity).val]]_vars

\* an invocation for a request with rotateOnExpiry, over a secret without
\* tls.crt, has returned no error and a requeue after zero
C13_Witness ==
    /\ last.req = "a"
    /\ last.err = "nil"
    /\ cr["a"].rotateOnExpiry
    /\ secrets[<<"ns1", "s1">>].exists
    /\ secrets[<<"ns1", "s1">>].crt = NoCert
    /\ last.gen = 0
    /\ last.result = [requeue |-> TRUE, after |-> 0]

\* C14: an invocation returns an error exactly when one of its calls (a read
\* or write of a store, a status write, the list or a patch of deployments,
\* the generation of a certificate) failed; a NotFound of the request, or of
\* the secret during a purge or before issuance, is not returned as an error.
C14_FailuresPropagate ==
    [][\A r \in Requests :
        last'.req = r
        => /\ last'.fail > 0 <=> last'.err # "nil"
           /\ last'.fail > 0 => Len(last'.trace) = last'.fail]_vars

\* the patch of a deployment failed after the secret was written, and the
\* invocation has returned an error
C14_Witness ==
    /\ last.req = "a"
    /\ \E d \in Deployments : FailedAt(last, {<<"Patch", d>>})
    /\ Called(last, <<"Create", "Secret">>)
    /\ last.err # "nil"
    /\ secrets[<<"ns1", "s1">>].exists

\* the messages Reconcile gives a phase
PhaseMessages ==
    {StatusMessageReconciling, StatusMessageRotating, StatusMessageDeleting,
     StatusMessageExpired, StatusMessageDeployed}

\* C15: an invocation for an active request whose validity does not parse,
\* in which no call fails, returns no error to the caller, leaves the request
\* out of the work queue, and leaves in status.message a message that is not
\* the message of a phase.
C15_ValidationNotRetried ==
    [][\A r \in Requests :
        (/\ last'.req = r
         /\ Active(r)
         /\ ParseDuration(cr[r].validity).err
         /\ last'.fail = 0)
        => /\ last'.err = "nil"
           /\ pending'[r] = "none"
           /\ cr'[r].message \notin PhaseMessages]_vars

\* an invocation for a request whose validity does not parse has returned
\* the parser's error, the request is queued again, and the message is that
\* of phase Reconciling
C15_Witness ==
    /\ last.req = "a"
    /\ last.fail = 0
    /\ ParseDuration(cr["a"].validity).err
    /\ last.err = "ValidationError"
    /\ pending["a"] # "none"
    /\ cr["a"].message = StatusMessageReconciling

\* deployment d is in the namespace of r and has a volume backed by the
\* secret r refers to
MountsSecretOf(d, r) ==
    /\ deployments[d].ns = NamespaceOf(r)
    /\ \E i \in 1..Len(deployments[d].volumes) :
           deployments[d].volumes[i] = cr[r].secretRef

\* the positions of the entries named CERTIFICATE_RESOURCE_VERSION in env
VersionEntries(env) == {j \in 1..Len(env) : env[j].name = CertificateENVName}

IsOtherEntry(e) == e.name # CertificateENVName

\* C16: no container ever has two entries named CERTIFICATE_RESOURCE_VERSION;
\* and after an invocation that ran the notifier and returned no error, every
\* container of every deployment that mounts the secret has exactly one such
\* entry, holding the resourceVersion of the stored secret: in the place of
\* the entry it had, or else appended, with its other entries as they were.
C16_NotifierUpsert ==
    /\ [](\A d \in Deployments :
            \A i \in 1..Len(deployments[d].containers) :
                Cardinality(VersionEntries(deployments[d].containers[i])) <= 1)
    /\ [][\A r \in Requests :
            (/\ last'.req = r
             /\ Called(last', <<"List", "Deployment">>)
             /\ last'.err = "nil")
            => \A d \in Deployments :
                   MountsSecretOf(d, r)
                   => \A i \in 1..Len(deployments[d].containers) :
                          LET old == deployments[d].containers[i]
                              new == deployments'[d].containers[i]
                          IN  /\ Cardinality(VersionEntries(new)) = 1
                              /\ \A j \in VersionEntries(new) :
                                     new[j].value = secrets'[KeyOf(r)].rv
                              /\ SelectSeq(new, IsOtherEntry)
                                     = SelectSeq(old, IsOtherEntry)
                              /\ IF VersionEntries(old) # {}
                                 THEN VersionEntries(new) = VersionEntries(old)
                                 ELSE VersionEntries(new) = {Len(old) + 1}]_vars

\* the notifier has patched d1 a second time, with another version: both
\* containers hold one entry, the first after the entry it had before
C16_Witness ==
    /\ last.req = "a"
    /\ last.err = "nil"
    /\ Called(last, <<"Patch", "d1">>)
    /\ deployments["d1"].rv = 3
    /\ VersionEntries(deployments["d1"].containers[1]) = {2}
    /\ VersionEntries(deployments["d1"].containers[2]) = {1}

\* C17: after an invocation for an active request with reloadOnChange that
\* generated a certificate and returned no error, the entry of every
\* container of every deployment that mounts the secret equals the
\* resourceVersion of the secret stored at secretRef; and when the invocation
\* was a rotation, the entry differs from the entry the container had before.
C17_PropagatedTokenIsStoredToken ==
    [][\A r \in Requests :
        (/\ last'.req = r
         /\ Active(r)
         /\ cr[r].reloadOnChange
         /\ last'.gen > 0
         /\ last'.err = "nil")
        => \A d \in Deployments :
               MountsSecretOf(d, r)
               => \A i \in 1..Len(deployments[d].containers) :
                      LET old == deployments[d].containers[i]
                          new == deployments'[d].containers[i]
                      IN  /\ VersionEntries(new) # {}
                          /\ \A j \in VersionEntries(new) :
                                 new[j].value = secrets'[KeyOf(r)].rv
                          /\ Called(last', <<"Status", StatusRotating>>)
                                 => \A j \in VersionEntries(new) :
                                        \A k \in VersionEntries(old) :
                                            new[j].value # old[k].value]_vars

\* a rotation with reloadOnChange has patched d1 and returned no error, and
\* d1 is as the issuance left it: patched once, its entry the version of the
\* secret, which still holds the expired certificate
C17_Witness ==
    /\ last.req = "a"
    /\ last.err = "nil"
    /\ cr["a"].reloadOnChange
    /\ Called(last, <<"Status", StatusRotating>>)
    /\ Called(last, <<"Patch", "d1">>)
    /\ deployments["d1"].rv = 2
    /\ \A j \in VersionEntries(deployments["d1"].containers[2]) :
           deployments["d1"].containers[2][j].value
               = secrets[<<"ns1", "s1">>].rv
    /\ StoredExpired("a")

\* C18: an invocation for a request whose reloadOnChange is false neither
\* lists nor patches deployments, and leaves every deployment as it was.
C18_NoPropagationWhenDisabled ==
    [][\A r \in Requests :
        (/\ last'.req = r
         /\ cr[r].exists
         /\ ~cr[r].reloadOnChange)
        => /\ Calls(last', "List") = {}
           /\ Calls(last', "Patch") = {}
           /\ deployments' = deployments]_vars

\* a rotation for a request without reloadOnChange has written the secret and
\* returned no error, and d1, which mounts the secret, has no entry and its
\* first resourceVersion
C18_Witness ==
    /\ last.req = "a"
    /\ last.err = "nil"
    /\ ~cr["a"].reloadOnChange
    /\ Called(last, <<"Status", StatusRotating>>)
    /\ Called(last, <<"Update", "Secret">>)
    /\ deployments["d1"] = InitDeployments["d1"]

\* C19: after an invocation for an active request that returned no error a
\* secret is stored at secretRef; and when none was stored before, in
\* particular after it was deleted by someone else, the invocation created
\* it with the certificate and key it generated.
C19_SelfHealing ==
    [][\A r \in Requests :
        (/\ last'.req = r
         /\ Active(r)
         /\ last'.err = "nil")
        => /\ secrets'[KeyOf(r)].exists
           /\ ~HasMaterial(r)
                  => /\ Called(last', <<"Create", "Secret">>)
                     /\ last'.made # NoCert
                     /\ secrets'[KeyOf(r)].crt = last'.made
                     /\ secrets'[KeyOf(r)].key = KeyFor(last'.made)]_vars

\* an invocation no event of the request caused has found the secret of the
\* issued request gone, and has created it again with a second certificate
C19_Witness ==
    /\ last.req = "a"
    /\ last.trigger = "none"
    /\ last.err = "nil"
    /\ Called(last, <<"Create", "Secret">>)
    /\ secrets[<<"ns1", "s1">>].exists
    /\ secrets[<<"ns1", "s1">>].crt = last.made
    /\ last.made.serial = 2
    /\ cr["a"].status = StatusDeployed

\* the Create and Update calls an invocation made on the secret
SecretWrites(l) ==
    {i \in 1..Len(l.trace) :
        l.trace[i] \in {<<"Create", "Secret">>, <<"Update", "Secret">>}}

\* C20: an invocation calls the generation of a certificate at most once and
\* writes the secret at most once, also when it finds an UPDATE event and an
\* expired certificate together.
C20_SingleIssuance ==
    [][\A r \in Requests :
        last'.req = r
        => /\ Cardinality(Calls(last', "Generate")) <= 1
           /\ last'.gen <= 1
           /\ Cardinality(SecretWrites(last')) <= 1]_vars

\* an invocation caused by an edit of a request with rotateOnExpiry, over an
\* expired certificate, has generated one certificate and written the secret
\* once
C20_Witness ==
    /\ last.req = "a"
    /\ last.trigger = "change"
    /\ last.err = "nil"
    /\ cr["a"].rotateOnExpiry
    /\ StoredExpired("a")
    /\ Cardinality(Calls(last, "Generate")) = 1
    /\ SecretWrites(last) # {}
    /\ Called(last, <<"Update", "Secret">>)

\* the positions at which an invocation wrote phase status
StatusWrites(l, status) ==
    {i \in 1..Len(l.trace) : l.trace[i] = <<"Status", status>>}

\* C21: an invocation for an active request that finds a secret at secretRef,
\* generates a certificate and returns no error (after an edit of the spec,
\* or over an expired certificate with rotateOnExpiry) writes phase Rotating
\* before it writes the secret and phase Deployed after it.
C21_RotatingPhase ==
    [][\A r \in Requests :
        (/\ last'.req = r
         /\ Active(r)
         /\ HasMaterial(r)
         /\ last'.gen > 0
         /\ last'.err = "nil")
        => \A w \in SecretWrites(last') :
               /\ \E i \in StatusWrites(last', StatusRotating) : i < w
               /\ \E k \in StatusWrites(last', StatusDeployed) : w < k]_vars

\* an invocation caused by an edit has generated a certificate and updated
\* the secret it found without writing phase Rotating
C21_Witness ==
    /\ last.req = "a"
    /\ last.trigger = "change"
    /\ last.err = "nil"
    /\ last.gen = 1
    /\ Called(last, <<"Update", "Secret">>)
    /\ StatusWrites(last, StatusRotating) = {}
    /\ StatusWrites(last, StatusDeployed) # {}

\* the positions at which an invocation wrote to a store
StoreWrites(l) ==
    {i \in 1..Len(l.trace) :
        l.trace[i][1] \in {"Create", "Update", "Delete", "Patch"}}

\* the positions at which an invocation wrote a phase other than Reconciling
OtherPhaseWrites(l) ==
    {i \in 1..Len(l.trace) :
        l.trace[i][1] = "Status" /\ l.trace[i][2] # StatusReconciling}

\* C22: an invocation whose Get finds the request writes phase Reconciling,
\* and writes it before every other phase and before every write to a store,
\* whether the request is active or under deletion; and it writes phase
\* Deleting only for a request under deletion.
C22_ReconcilingFirst ==
    [][\A r \in Requests :
        (/\ last'.req = r
         /\ cr[r].exists
         /\ last'.fail # 1)
        => /\ StatusWrites(last', StatusReconciling) # {}
           /\ \A i \in StoreWrites(last') \cup OtherPhaseWrites(last') :
                  \E j \in StatusWrites(last', StatusReconciling) : j < i
           /\ StatusWrites(last', StatusDeleting) # {} => cr[r].deleting]_vars

\* a purge has written phase Deleting, deleted the secret and removed the
\* finalizer without writing phase Reconciling
C22_Witness ==
    /\ last.req = "a"
    /\ last.err = "nil"
    /\ StatusWrites(last, StatusDeleting) # {}
    /\ StatusWrites(last, StatusReconciling) = {}
    /\ Called(last, <<"Delete", "Secret">>)
    /\ Called(last, <<"Update", "Certificate">>)
    /\ ~cr["a"].exists

\* C23: when another writer updates a deployment between the List and the
\* Patch of the notifier and the invocation returns no error, the deployment
\* afterwards holds what that writer wrote: the entries of its containers
\* other than CERTIFICATE_RESOURCE_VERSION are those of the other writer.
C23_NoLostUpdate ==
    [][\A r \in Requests :
        (/\ last'.req = r
         /\ last'.raced
         /\ last'.err = "nil")
        => \A d \in Deployments :
               MountsSecretOf(d, r)
               => \A i \in 1..Len(deployments[d].containers) :
                      SelectSeq(deployments'[d].containers[i], IsOtherEntry)
                          = SelectSeq(OtherWrite(deployments[d]).containers[i],
                                      IsOtherEntry)]_vars

\* another writer has set LOG to "2" in d1 during an invocation that returned
\* no error and made one List and one Patch, and d1 holds LOG "1" again
C23_Witness ==
    /\ last.req = "a"
    /\ last.raced
    /\ last.err = "nil"
    /\ Cardinality(Calls(last, "List")) = 1
    /\ Cardinality(Calls(last, "Patch")) = 1
    /\ deployments["d1"].containers[1][1] = [name |-> "LOG", value |-> "1"]
    /\ deployments["d1"].rv = 3

\* the secret of r holds a tls.crt that is no certificate
StoredUndecodable(r) ==
    /\ HasMaterial(r)
    /\ secrets[KeyOf(r)].crt.kind \notin {"none", TypeCertificate}

\* C24: IsCertificateExpired answers an error for a stored tls.crt that is no
\* certificate, and an invocation for an active request that checks such a
\* secret, with no call failing, returns an error and does not leave phase
\* Deployed.
C24_UndecodableIsError ==
    [][\A r \in Requests :
        (/\ last'.req = r
         /\ Active(r)
         /\ StoredUndecodable(r)
         /\ Event # EventUpdate
         /\ last'.fail = 0)
        => /\ IsCertificateExpired(secrets[KeyOf(r)].crt, NowMs).err
           /\ last'.err # "nil"
           /\ cr'[r].status # StatusDeployed]_vars

\* an invocation over a tls.crt without a PEM block has returned no error
\* and left phase Deployed, and the text is still stored
C24_Witness ==
    /\ last.req = "a"
    /\ last.fail = 0
    /\ last.err = "nil"
    /\ last.gen = 0
    /\ secrets[<<"ns1", "s1">>].crt = NotPem
    /\ cr["a"].status = StatusDeployed

\* text matches ^[0-9]+(s|m|h|d)$
MatchesPattern(text) ==
    /\ Len(text) >= 2
    /\ text[Len(text)] \in {"s", "m", "h", "d"}
    /\ AllDigits(SubSeq(text, 1, Len(text) - 1))

\* the duration the grammar gives a text that matches it, in milliseconds
PatternValue(text) ==
    NatOf(SubSeq(text, 1, Len(text) - 1))
        * (CASE text[Len(text)] = "s" -> Second
             [] text[Len(text)] = "m" -> Minute
             [] text[Len(text)] = "h" -> Hour
             [] text[Len(text)] = "d" -> 24 * Hour)

\* C25: ParseDuration returns no error exactly for the texts that match
\* ^[0-9]+(s|m|h|d)$, and for those it returns the integer times the unit,
\* a day being 24 hours; for every other text it returns an error.
C25_ParseValidityGrammar ==
    out.done
    => /\ out.res.err <=> ~MatchesPattern(arg)
       /\ MatchesPattern(arg) => out.res.val = PatternValue(arg)

\* ParseDuration has returned minus 24 hours, and no error, for "-1d"
C25_Witness ==
    /\ arg = <<"-", "1", "d">>
    /\ out.done
    /\ ~out.res.err
    /\ out.res.val = -(24 * Hour)

\* C26: IsCertificateExpired returns no error for an issued certificate and
\* answers expired exactly when the time is after the certificate's notAfter;
\* at the time of issuance it answers not expired.
C26_ExpiryBoundary ==
    out.done
    => /\ ~out.res.err
       /\ out.res.expired <=> arg.now > IssuedFor(arg).notAfter
       /\ arg.now = arg.issuedAt => ~out.res.expired

\* a certificate issued for a validity of zero half a second into a second
\* is expired at the time of its issuance
C26_Witness ==
    /\ arg = [validity |-> 0, issuedAt |-> HalfSecond, now |-> HalfSecond]
    /\ out.done
    /\ out.res.expired
    /\ IssuedFor(arg).notAfter = 0

\* C27 as stated: the certificate CreateSelfSignedCertificate returns has
\* the name as common name, as only DNS name and as issuer, and its notAfter
\* is its notBefore plus the validity.
C27_IssuedFieldsExact ==
    out.done
    => /\ out.res.cert.cn = arg.dnsName
       /\ out.res.cert.dns = <<arg.dnsName>>
       /\ out.res.cert.issuer = out.res.cert.cn
       /\ out.res.cert.notAfter = out.res.cert.notBefore + arg.validity

\* C27, amended: the certificate has the name as common name, as only DNS
\* name and as issuer; its notBefore is the second of the first clock read,
\* and its notAfter is its notBefore plus the validity plus the whole seconds
\* the clock advanced between the two reads: the validity exactly when both
\* reads fall in one second, and never less.
C27_IssuedFields ==
    out.done
    => /\ out.res.cert.kind = TypeCertificate
       /\ out.res.cert.cn = arg.dnsName
       /\ out.res.cert.dns = <<arg.dnsName>>
       /\ out.res.cert.issuer = out.res.cert.cn
       /\ out.res.cert.notBefore = TruncSec(arg.t1)
       /\ out.res.cert.notAfter
              = out.res.cert.notBefore + arg.validity
                    + (TruncSec(arg.t2) - TruncSec(arg.t1))
       /\ out.res.cert.notAfter >= out.res.cert.notBefore + arg.validity
       /\ TruncSec(arg.t1) = TruncSec(arg.t2)
              => out.res.cert.notAfter = out.res.cert.notBefore + arg.validity

\* a certificate for y.io and one second, made with a second beginning
\* between the two clock reads, is valid for two seconds
C27_Witness ==
    /\ arg = [dnsName |-> "y.io", validity |-> Second, t1 |-> HalfSecond,
              t2 |-> Second]
    /\ out.done
    /\ out.res.cert.cn = "y.io"
    /\ out.res.cert.notBefore = 0
    /\ out.res.cert.notAfter = 2 * Second

\* the secrets with a certificate in the namespace of r
Materials(S, r) ==
    {k \in SecretKeys : /\ k[1] = NamespaceOf(r)
                        /\ S[k].exists
                        /\ S[k].crt.kind = TypeCertificate}

\* C28: where only the engine writes secrets, after every invocation that
\* returns no error at most one secret with a certificate exists in the
\* namespace of the request; while the request exists it is the one at the
\* current secretRef, so that none remains under a former name; and after a
\* purge of a deletion-requested request none exists.
C28_OneActiveMaterial ==
    [][\A r \in Requests :
        (last'.req = r /\ last'.err = "nil")
        => /\ Cardinality(Materials(secrets', r)) <= 1
           /\ cr'[r].exists
                  => Materials(secrets', r)
                         \subseteq {<<NamespaceOf(r), cr'[r].secretRef>>}
           /\ (DeletionRequested(r) /\ cr[r].purgeOnDelete)
                  => Materials(secrets', r) = {}]_vars

\* the secretRef of the request was edited from s1 to s2 and the request
\* reconciled without error: a certificate is stored under both names
C28_Witness ==
    /\ last.req = "a"
    /\ last.err = "nil"
    /\ cr["a"].exists
    /\ cr["a"].secretRef = "s2"
    /\ Materials(secrets, "a") = {<<"ns1", "s1">>, <<"ns1", "s2">>}

\* C29: after an invocation for an active request with purgeOnDelete that
\* returns no error and leaves a secret at secretRef, the request carries the
\* finalizer, whether the secret was there before the invocation or not;
\* and an invocation for a request without purgeOnDelete never adds the
\* finalizer.
C29_FinalizerTracksPurge ==
    [][\A r \in Requests :
        last'.req = r
        => /\ (/\ Active(r)
               /\ cr[r].purgeOnDelete
               /\ last'.err = "nil"
               /\ secrets'[KeyOf(r)].exists)
                  => cr'[r].finalizer
           /\ (cr[r].exists /\ ~cr[r].purgeOnDelete /\ ~cr[r].finalizer)
                  => ~cr'[r].finalizer]_vars

\* an invocation for an active request with purgeOnDelete found its secret
\* stored, returned no error, and the request has no finalizer
C29_Witness ==
    /\ last.req = "a"
    /\ last.err = "nil"
    /\ last.gen = 0
    /\ Active("a")
    /\ cr["a"].purgeOnDelete
    /\ HasMaterial("a")
    /\ ~cr["a"].finalizer

\* C30: a deletion-requested request that is reconciled without error again
\* and again is in the end without the finalizer, also when its purgeOnDelete
\* was edited from true to false after the finalizer was added.
C30_DeletionNeverBlocked ==
    \A r \in Requests :
        DeletionRequested(r) ~> ~(cr[r].exists /\ cr[r].finalizer)

\* a deletion-requested request whose purgeOnDelete was edited to false
\* holds the finalizer, and an invocation for it returned no error having
\* made no call but the Get
C30_Witness ==
    /\ last.req = "a"
    /\ last.err = "nil"
    /\ last.fail = 0
    /\ Len(last.trace) = 1
    /\ DeletionRequested("a")
    /\ ~cr["a"].purgeOnDelete
    /\ cr["a"].finalizer

\* the list or a patch of the notifier failed in the invocation, after the
\* secret was written
NotifierFailed(l) ==
    /\ FailedAt(l, {<<"List", "Deployment">>}
                       \cup {<<"Patch", d>> : d \in Deployments})
    /\ SecretWrites(l) # {}

\* every container of every deployment that mounts the secret of r has an
\* entry, and its entries hold the resourceVersion of the stored secret
Propagated(r) ==
    \A d \in Deployments :
        MountsSecretOf(d, r)
        => \A i \in 1..Len(deployments[d].containers) :
               LET env == deployments[d].containers[i]
               IN  /\ VersionEntries(env) # {}
                   /\ \A j \in VersionEntries(env) :
                          env[j].value = secrets[KeyOf(r)].rv

\* C31: an invocation in which the list or a patch of the notifier fails
\* after the secret was written returns an error and is queued again; and,
\* the host retrying until the calls succeed, every deployment that mounts
\* the secret in the end carries the resourceVersion of the stored secret
\* (or MaxIssued certificates were generated, where the exploration ends).
C31_PropagationSurvivesFailure ==
    /\ [][\A r \in Requests :
            (last'.req = r /\ NotifierFailed(last'))
            => /\ last'.err # "nil"
               /\ pending'[r] # "none"]_vars
    /\ \A r \in Requests :
           (last.req = r /\ NotifierFailed(last) /\ Active(r))
           ~> (Propagated(r) \/ issued = MaxIssued)

\* the notifier failed after the first issuance, the retry found the secret
\* stored and returned none without error and without running the notifier,
\* and d1 has no entry
C31_Witness ==
    /\ last.req = "a"
    /\ last.err = "nil"
    /\ last.trigger = "create"
    /\ Calls(last, "List") = {}
    /\ Active("a")
    /\ cr["a"].reloadOnChange
    /\ ~cr["a"].rotateOnExpiry
    /\ last.result = NoResult
    /\ HasMaterial("a")
    /\ pending["a"] = "none"
    /\ ~Propagated("a")

\* C32: an invocation for an active request whose validity does not parse
\* leaves the secrets and the deployments as they were, makes no write to
\* the secret and no patch, and adds no finalizer: with the secret absent,
\* valid or expired, and after a create or an update event.
C32_MalformedValidityChangesNothing ==
    [][\A r \in Requests :
        (/\ last'.req = r
         /\ Active(r)
         /\ ParseDuration(cr[r].validity).err)
        => /\ secrets' = secrets
           /\ deployments' = deployments
           /\ SecretWrites(last') = {}
           /\ Calls(last', "Patch") = {}
           /\ last'.gen = 0
           /\ cr'[r].finalizer => cr[r].finalizer]_vars

\* a request with purgeOnDelete and reloadOnChange whose validity was edited
\* to a text that does not parse, and whose secret was deleted, has been
\* reconciled after the update event: the parser's error is returned, and
\* there is no secret, no finalizer and no patched deployment
C32_Witness ==
    /\ last.req = "a"
    /\ last.trigger = "change"
    /\ last.fail = 0
    /\ last.err = "ValidationError"
    /\ Event = EventUpdate
    /\ cr["a"].validity = VOver
    /\ cr["a"].purgeOnDelete
    /\ cr["a"].reloadOnChange
    /\ ~cr["a"].finalizer
    /\ ~HasMaterial("a")
    /\ deployments = InitDeployments

\* C33: an invocation patches only deployments of the request's namespace
\* that have a volume backed by secretRef; every other deployment is
\* afterwards as it was, and a deployment that mounts the secret keeps its
\* namespace, its volumes, its containers and, in every container, the
\* entries not named CERTIFICATE_RESOURCE_VERSION, in their order.
C33_NotifierFrame ==
    [][\A r \in Requests :
        last'.req = r
        => \A d \in Deployments :
               /\ Called(last', <<"Patch", d>>) => MountsSecretOf(d, r)
               /\ ~MountsSecretOf(d, r) => deployments'[d] = deployments[d]
               /\ MountsSecretOf(d, r)
                      => /\ deployments'[d].ns = deployments[d].ns
                         /\ deployments'[d].volumes = deployments[d].volumes
                         /\ Len(deployments'[d].containers)
                                = Len(deployments[d].containers)
                         /\ \A i \in 1..Len(deployments[d].containers) :
                                SelectSeq(deployments'[d].containers[i],
                                          IsOtherEntry)
                                    = SelectSeq(deployments[d].containers[i],
                                                IsOtherEntry)]_vars

\* the notifier has run for "b", whose namespace has no deployment, after it
\* ran for "a": d1 is patched once, its LOG entry kept, and d2 is as it was
C33_Witness ==
    /\ last.req = "b"
    /\ last.err = "nil"
    /\ Called(last, <<"List", "Deployment">>)
    /\ Calls(last, "Patch") = {}
    /\ cr["a"].exists
    /\ deployments["d1"].rv = 2
    /\ deployments["d1"].containers[1][1] = [name |-> "LOG", value |-> "1"]
    /\ VersionEntries(deployments["d1"].containers[1]) # {}
    /\ deployments["d2"] = InitDeployments["d2"]

\* what C34 says of the write of phase Deployed by an invocation for r: it
\* is the last call of the invocation, so that every write of the secret and
\* every patch comes before it; a secret is then stored at secretRef; and
\* when the request has reloadOnChange and a certificate was generated, the
\* notifier has listed the deployments and patched those that mount the
\* secret, and no call failed
DeployedIsLast(r) ==
    \A i \in StatusWrites(last', StatusDeployed) :
        /\ i = Len(last'.trace)
        /\ i # last'.fail
               => /\ secrets'[KeyOf(r)].exists
                  /\ last'.err = "nil"
                  /\ (cr[r].reloadOnChange /\ last'.gen > 0)
                         => /\ Called(last', <<"List", "Deployment">>)
                            /\ \A d \in Deployments :
                                   MountsSecretOf(d, r)
                                   => Called(last', <<"Patch", d>>)

\* C34 as stated: phase Deployed is written last, after the secret and the
\* notifier; and an invocation that returns an error leaves the request in
\* phase Reconciling, Rotating or Deleting.
C34_DeployedLastOrErrorPhase ==
    [][\A r \in Requests :
        (last'.req = r /\ cr[r].exists)
        => /\ DeployedIsLast(r)
           /\ (last'.err # "nil" /\ cr'[r].exists)
                  => cr'[r].status \in {StatusReconciling, StatusRotating,
                                        StatusDeleting}]_vars

\* C34, amended: phase Deployed is written last, after the secret and the
\* notifier; and an invocation that returns an error has written no phase
\* Deployed: it leaves the phase it wrote last, Reconciling, Rotating,
\* Deleting or Expired, or, when no status write of it succeeded, the phase
\* the request had before.
C34_DeployedIsWrittenLast ==
    [][\A r \in Requests :
        (last'.req = r /\ cr[r].exists)
        => /\ DeployedIsLast(r)
           /\ (last'.err # "nil" /\ cr'[r].exists)
                  => LET written == {i \in 1..Len(last'.trace) :
                                        /\ last'.trace[i][1] = "Status"
                                        /\ i # last'.fail}
                     IN  /\ \A i \in written :
                                last'.trace[i][2] # StatusDeployed
                         /\ IF written = {}
                            THEN cr'[r].status = cr[r].status
                            ELSE cr'[r].status
                                     \in {StatusReconciling, StatusRotating,
                                          StatusDeleting, StatusExpired}]_vars

\* a request in phase Deployed was reconciled again and the first status
\* write failed: the invocation returned an error and the phase is Deployed
C34_Witness ==
    /\ last.req = "a"
    /\ last.err # "nil"
    /\ last.fail = 2
    /\ last.trace[2] = <<"Status", StatusReconciling>>
    /\ cr["a"].exists
    /\ cr["a"].status = StatusDeployed

\* C35: after an invocation for an active request that returns no error and
\* leaves phase Deployed over a stored certificate, status.expiryDate is the
\* notAfter of that certificate, whether the invocation generated it or
\* found it unexpired and left it.
C35_StatusExpiryMatchesMaterial ==
    [][\A r \in Requests :
        (/\ last'.req = r
         /\ Active(r)
         /\ last'.err = "nil"
         /\ cr'[r].status = StatusDeployed
         /\ secrets'[KeyOf(r)].exists
         /\ secrets'[KeyOf(r)].crt.kind = TypeCertificate)
        => cr'[r].expiryDate = secrets'[KeyOf(r)].crt.notAfter]_vars

\* a certificate issued at 0 s for two seconds was found unexpired by an
\* invocation at 1 s, which left it alone and wrote phase Deployed with an
\* expiryDate of 3 s
C35_Witness ==
    /\ last.req = "a"
    /\ last.err = "nil"
    /\ last.gen = 0
    /\ now = 1
    /\ cr["a"].status = StatusDeployed
    /\ HasMaterial("a")
    /\ ~StoredExpired("a")
    /\ secrets[<<"ns1", "s1">>].crt.notAfter = 2 * Second
    /\ cr["a"].expiryDate = 3 * Second

\* C36: whenever ParseDuration returns no error the duration is not
\* negative, and for a text of digits followed by d it is the number the
\* digits write times 24 hours.
C36_ParseValidityRange ==
    (out.done /\ ~out.res.err)
    => /\ out.res.val >= 0
       /\ (/\ arg[Len(arg)] = "d"
           /\ AllDigits(SubSeq(arg, 1, Len(arg) - 1)))
              => out.res.val = NatOf(SubSeq(arg, 1, Len(arg) - 1)) * 24 * Hour

\* ParseDuration has returned minus 48 hours, and no error, for "-2d"
C36_Witness ==
    /\ arg = <<"-", "2", "d">>
    /\ out.done
    /\ ~out.res.err
    /\ out.res.val < 0
    /\ out.res.val = -(48 * Hour)

\* C37: when the list of certificates does not fail, the requests
\* MapSecretsToCertificates returns for the event of a secret are those of
\* the certificates in the namespace of the secret whose secretRef names it:
\* every one of them, and none of another namespace.
C37_SecretToRequestMapping ==
    (out.done /\ ~arg.listFails)
    => {out.res[i] : i \in 1..Len(out.res)}
           = {r \in {"a", "b", "c"} :
                 /\ arg.certificates[r].exists
                 /\ NamespaceOf(r) = arg.secret[1]
                 /\ arg.certificates[r].secretRef = arg.secret[2]}

\* for the event of secret s1 of ns1, to which no certificate of ns1 refers,
\* the request of "b" of ns2 has been returned
C37_Witness ==
    /\ out.done
    /\ ~arg.listFails
    /\ arg.secret = <<"ns1", "s1">>
    /\ arg.certificates["a"] = [exists |-> TRUE, secretRef |-> "s2"]
    /\ arg.certificates["b"] = [exists |-> TRUE, secretRef |-> "s1"]
    /\ out.res = <<"b">>

====
